---- MODULE Spec2Model ----
(***************************************************************************)
(* Asteroid Storm Online: the room session loop (Room, RoomManager,        *)
(* WebSocketServer), the shared simulation (GameWorld, entities, math) and *)
(* the game client (Game, NetworkManager, ClientPrediction).               *)
(*                                                                         *)
(* Numbers are JavaScript doubles in the source.  Here they are fixed      *)
(* point integers:                                                         *)
(*   time      1/3000 s   (1 ms = 3 units, FIXED_TIMESTEP = 1/60 s = 50)   *)
(*   angle     1/15000 rad                                                 *)
(*   velocity  1/15 px/s                                                   *)
(*   position  1/1000 px                                                   *)
(*   factors   1/1000     (cos, sin, components of a normalized vector)    *)
(* Date.now() is in whole milliseconds, as in the source.                  *)
(***************************************************************************)
EXTENDS Integers, Sequences, FiniteSets, TLC

\* ------------------------------------------------------------------------
\* Bounds of the model
\* ------------------------------------------------------------------------
\* MinTickMs..MaxTickMs: time between two timer events of a room, in ms
\* MaxSeq: inputs per client; MaxLen: inputs buffered at the start of SpecEquiv
\* ClockStepMs: a stall of the event loop; IdleStepMs: an idle period, longer
\* than the age at which cleanupEmptyRooms reclaims an empty room
\* MaxLobbySteps: messages handled by the busy server of SpecLobby
\* MaxSteps: events in a run; MaxPredSteps: calls on a ClientPrediction
MinTickMs == 16
MaxTickMs == 16
MaxTicks == 2
MaxSnapshots == 1
MaxSeq == 2
MaxJoins == 3
MaxHits == 1
MaxClockSteps == 1
MaxLen == 2
ClockStepMs == 3000
IdleStepMs == 300001
MaxIdleSteps == 1
MaxSteps == 5
MaxPredSteps == 6
MaxEvents == 2
WorldStartMs == 20000
MaxWorldSteps == 3
MaxRejoins == 1
MaxLobbySteps == 4

\* ------------------------------------------------------------------------
\* Fixed point resolutions
\* ------------------------------------------------------------------------
UnitsPerMs == 3
UnitsPerSec == 1000 * UnitsPerMs
AngleUnits == 5 * UnitsPerSec
VelUnits == 15
PosUnits == 1000
Q == 1000

\* ------------------------------------------------------------------------
\* constants.ts
\* ------------------------------------------------------------------------
WORLD_WIDTH == 4096 * PosUnits
WORLD_HEIGHT == 4096 * PosUnits
FIXED_TIMESTEP == UnitsPerSec \div 60
MAX_PLAYERS_PER_ROOM == 8
MAX_SPEED == 420 * VelUnits
\* per second: velocity units gained (320, 180 px/s^2), angle units (5.2 rad/s)
ACCELERATION == 320 * VelUnits
BRAKE_DECELERATION == 180 * VelUnits
ROTATION_SPEED == (52 * AngleUnits) \div 10
MAX_HEALTH == 100
MAX_LIVES == 3
INVULNERABILITY_TIME == 2000
FIRE_RATE == 120
BULLET_SPEED == 900 * VelUnits
BULLET_LIFETIME == 3000
InputBufferLimit == 60
PredictionBufferLimit == 60
InputRetentionMs == 1000
PredictionRetentionMs == 2000
RespawnDelayMs == 3000

\* ------------------------------------------------------------------------
\* math.ts
\* ------------------------------------------------------------------------
Min(a, b) == IF a < b THEN a ELSE b
Max(a, b) == IF a > b THEN a ELSE b

\* JavaScript's %: the remainder has the sign of the dividend
JsMod(a, b) == IF a >= 0 THEN a % b ELSE -((-a) % b)

\* Math.sqrt, rounded down to the resolution
RECURSIVE SqrtSearch(_, _, _)
SqrtSearch(n, lo, hi) ==
  IF lo >= hi THEN lo
  ELSE LET mid == (lo + hi + 1) \div 2
       IN IF mid * mid <= n THEN SqrtSearch(n, mid, hi)
                            ELSE SqrtSearch(n, lo, mid - 1)
Sqrt(n) == SqrtSearch(n, 0, 46340)

\* pi in angle units, and Math.cos / Math.sin to three decimals
\* (Bhaskara's rational approximation on [-pi/2, pi/2], reduced by symmetry)
PiAngle == (31416 * AngleUnits) \div 10000
CosCore(x) ==
  LET m  == x \div 15
      p2 == ((31416 * 1000) \div 10000) * ((31416 * 1000) \div 10000)
  IN (100 * (p2 - 4 * m * m)) \div ((p2 + m * m) \div 10)
Cos(angle) ==
  LET t == angle % (2 * PiAngle)
  IN IF 2 * t <= PiAngle THEN CosCore(t)
     ELSE IF 2 * t <= 3 * PiAngle THEN -CosCore(t - PiAngle)
     ELSE CosCore(t - 2 * PiAngle)
Sin(angle) == Cos(angle - PiAngle \div 2)

Vec2_zero == [x |-> 0, y |-> 0]
Vec2_add(a, b) == [x |-> a.x + b.x, y |-> a.y + b.y]
Vec2_subtract(a, b) == [x |-> a.x - b.x, y |-> a.y - b.y]
\* Vec2.multiply(v, num/den)
Vec2_multiply(v, num, den) == [x |-> (v.x * num) \div den, y |-> (v.y * num) \div den]
Vec2_lengthSquared(v) == v.x * v.x + v.y * v.y
Vec2_length(v) == Sqrt(Vec2_lengthSquared(v))
\* Vec2.normalize: components scaled by Q
Vec2_normalize(v) ==
  LET len == Vec2_length(v)
  IN IF len = 0 THEN [x |-> 0, y |-> 0]
     ELSE [x |-> (v.x * Q) \div len, y |-> (v.y * Q) \div len]
\* Vec2.fromAngle(angle, magnitude)
Vec2_fromAngle(angle, magnitude) ==
  [x |-> (Cos(angle) * magnitude) \div Q, y |-> (Sin(angle) * magnitude) \div Q]
Vec2_limitLength(v, maxLength) ==
  IF Vec2_lengthSquared(v) > maxLength * maxLength
  THEN Vec2_multiply(Vec2_normalize(v), maxLength, Q)
  ELSE v

\* A number is binary floating point: it keeps SignificandBits significant
\* bits of a count of resolution units (JavaScript keeps 53 bits; the width
\* is reduced with the resolution).  Ulp(n, 1) is the spacing of the numbers
\* of magnitude n, and RoundNumber rounds to the nearest number, ties to even.
SignificandBits == 24
RECURSIVE Ulp(_, _)
Ulp(n, u) == IF n < (2 ^ SignificandBits) * u THEN u ELSE Ulp(n, 2 * u)
RoundNumber(v) ==
  LET a == IF v < 0 THEN -v ELSE v
      u == Ulp(a, 1)
      q == a \div u
      r == a % u
      m == IF 2 * r > u \/ (2 * r = u /\ q % 2 = 1) THEN q + 1 ELSE q
  IN IF v < 0 THEN -(m * u) ELSE m * u

\* ((x % w) + w) % w: the remainders are exact, the sum is rounded
wrapPosition(position, worldWidth, worldHeight) ==
  [x |-> JsMod(RoundNumber(JsMod(position.x, worldWidth) + worldWidth), worldWidth),
   y |-> JsMod(RoundNumber(JsMod(position.y, worldHeight) + worldHeight), worldHeight)]

\* ------------------------------------------------------------------------
\* JavaScript Map (insertion ordered) of records with an id field
\* ------------------------------------------------------------------------
MapHas(m, k) == \E i \in DOMAIN m : m[i].id = k
MapIndex(m, k) == CHOOSE i \in DOMAIN m : m[i].id = k
MapGet(m, k) == m[MapIndex(m, k)]
MapSet(m, k, v) == IF MapHas(m, k) THEN [m EXCEPT ![MapIndex(m, k)] = v] ELSE Append(m, v)
MapDelete(m, k) == SelectSeq(m, LAMBDA e : e.id # k)
MapKeys(m) == {m[i].id : i \in DOMAIN m}

\* ------------------------------------------------------------------------
\* entities.ts
\* ------------------------------------------------------------------------
createPlayer(id, name, position) ==
  [id |-> id, name |-> name,
   transform |-> [position |-> position, rotation |-> 0],
   velocity |-> [linear |-> Vec2_zero, angular |-> 0],
   health |-> MAX_HEALTH, score |-> 0, lives |-> MAX_LIVES, isAlive |-> TRUE,
   lastInputSequence |-> 0, invulnerableUntil |-> 0, lastShotTime |-> 0]

\* updatePlayerMovement(player, input, deltaTime); deltaTime in time units
MovementRotation(rotation, input, deltaTime) ==
  IF input.rotate # 0
  THEN rotation + (input.rotate * ROTATION_SPEED * deltaTime) \div UnitsPerSec
  ELSE rotation
MovementThrust(linear, rotation, input, deltaTime) ==
  IF input.thrust
  THEN Vec2_add(linear, Vec2_fromAngle(rotation, (ACCELERATION * deltaTime) \div UnitsPerSec))
  ELSE linear
MovementBrake(linear, input, deltaTime) ==
  LET speed == Vec2_length(linear)
      brakeForce == (BRAKE_DECELERATION * deltaTime) \div UnitsPerSec
  IN IF input.brake /\ speed > 0
     THEN Vec2_subtract(linear,
            Vec2_multiply(Vec2_normalize(linear), Min(brakeForce, speed), Q))
     ELSE linear
updatePlayerMovement(player, input, deltaTime) ==
  LET rotation == MovementRotation(player.transform.rotation, input, deltaTime)
      thrusted == MovementThrust(player.velocity.linear, rotation, input, deltaTime)
      braked   == MovementBrake(thrusted, input, deltaTime)
      linear   == Vec2_limitLength(braked, MAX_SPEED)
      deltaPos == Vec2_multiply(linear, deltaTime, (VelUnits * UnitsPerSec) \div PosUnits)
      position == wrapPosition(Vec2_add(player.transform.position, deltaPos),
                               WORLD_WIDTH, WORLD_HEIGHT)
  IN [player EXCEPT !.transform = [position |-> position, rotation |-> rotation],
                    !.velocity = [linear |-> linear, angular |-> player.velocity.angular]]

canPlayerShoot_always(player, currentTime) == TRUE
canPlayerShoot(player, currentTime) == currentTime - player.lastShotTime >= FIRE_RATE

respawnPlayer_noHeal(player, position, currentTime) ==
  [player EXCEPT !.transform = [position |-> position, rotation |-> 0],
                 !.velocity = [linear |-> Vec2_zero, angular |-> 0],
                 !.isAlive = TRUE,
                 !.invulnerableUntil = currentTime + INVULNERABILITY_TIME]
respawnPlayer(player, position, currentTime) ==
  [player EXCEPT !.transform = [position |-> position, rotation |-> 0],
                 !.velocity = [linear |-> Vec2_zero, angular |-> 0],
                 !.health = MAX_HEALTH,
                 !.isAlive = TRUE,
                 !.invulnerableUntil = currentTime + INVULNERABILITY_TIME]

\* AsteroidSize, and ASTEROID_CONFIG in px, px/s and points
AsteroidSizes == {"large", "medium", "small"}
ASTEROID_CONFIG ==
  [large  |-> [RADIUS |-> 40, MIN_SPEED |-> 20, MAX_SPEED |-> 60, POINTS |-> 20,
               SPLIT_COUNT |-> 2],
   medium |-> [RADIUS |-> 20, MIN_SPEED |-> 40, MAX_SPEED |-> 100, POINTS |-> 50,
               SPLIT_COUNT |-> 2],
   small  |-> [RADIUS |-> 10, MIN_SPEED |-> 60, MAX_SPEED |-> 140, POINTS |-> 100,
               SPLIT_COUNT |-> 0]]

\* createAsteroid; the spin of an asteroid (transform.rotation,
\* velocity.angular, both random) is left out
createAsteroid(id, position, velocity, size) ==
  [id |-> id, transform |-> [position |-> position],
   velocity |-> [linear |-> velocity], size |-> size,
   radius |-> ASTEROID_CONFIG[size].RADIUS]

\* splitAsteroid(asteroid).  randoms[i] holds the two values Math.random()
\* returns for child i (angle, speed), as fractions of Q; ids[i] is its id.
SplitAsteroid_newSize_same(size) == size
SplitAsteroid_newSize(size) ==
  IF size = "large" THEN "medium" ELSE "small"
SplitAsteroid_speed(newConfig, random) ==
  (random * (newConfig.MAX_SPEED - newConfig.MIN_SPEED) * VelUnits) \div Q
    + newConfig.MIN_SPEED * VelUnits
SplitAsteroid_child(asteroid, i, random, id) ==
  LET config == ASTEROID_CONFIG[asteroid.size]
      newSize == SplitAsteroid_newSize(asteroid.size)
      newConfig == ASTEROID_CONFIG[newSize]
      angle == (2 * PiAngle * i) \div config.SPLIT_COUNT
                 + (random.angle * AngleUnits) \div (2 * Q)
      speed == SplitAsteroid_speed(newConfig, random.speed)
      velocity == Vec2_fromAngle(angle, speed)
      offsetDistance == (asteroid.radius + newConfig.RADIUS + 5) * PosUnits
      offsetPosition == Vec2_add(asteroid.transform.position,
                                Vec2_fromAngle(angle, offsetDistance))
  IN createAsteroid(id, offsetPosition, velocity, newSize)
splitAsteroid(asteroid, randoms, ids) ==
  IF ASTEROID_CONFIG[asteroid.size].SPLIT_COUNT = 0 THEN <<>>
  ELSE IF asteroid.size \notin {"large", "medium"} THEN <<>>
  ELSE [i \in 1..ASTEROID_CONFIG[asteroid.size].SPLIT_COUNT |->
          SplitAsteroid_child(asteroid, i - 1, randoms[i], ids[i])]

\* ------------------------------------------------------------------------
\* Identities, input states, snapshots
\* ------------------------------------------------------------------------
\* connection ids (generateId() in handleConnection); a player has the id of
\* its connection.  Connection 1 runs the game client, the others are peers
\* that speak the message protocol directly.
Conns == 1..2
GameClient == 1
NoId == 0
Null == [null |-> TRUE]

InputStates ==
  [thrust : BOOLEAN, rotate : {-1, 0, 1}, brake : BOOLEAN, shoot : BOOLEAN]

\* ------------------------------------------------------------------------
\* ClientPrediction.ts
\* ------------------------------------------------------------------------
NewPrediction ==
  [playerId |-> NoId, inputBuffer |-> <<>>, sequenceNumber |-> 0,
   lastAcknowledgedSequence |-> 0, predictedState |-> Null]

CP_setPlayerId(cp, playerId) == [cp EXCEPT !.playerId = playerId]

CP_applyInput(cp, playerId, inputState, dateNow) ==
  IF cp.playerId = NoId \/ cp.playerId # playerId THEN cp
  ELSE LET sequenceNumber == cp.sequenceNumber + 1
           inputEntry == [sequence |-> sequenceNumber, timestamp |-> dateNow,
                          input |-> inputState, processed |-> FALSE]
           pushed == Append(cp.inputBuffer, inputEntry)
       IN [cp EXCEPT !.sequenceNumber = sequenceNumber,
                     !.inputBuffer = IF Len(pushed) > PredictionBufferLimit
                                     THEN Tail(pushed) ELSE pushed]

applyInputToState(player, input) ==
  LET playerCopy == updatePlayerMovement(
                      [transform |-> player.transform, velocity |-> player.velocity],
                      input, FIXED_TIMESTEP)
  IN [player EXCEPT !.transform = playerCopy.transform,
                    !.velocity = playerCopy.velocity]

RECURSIVE ReapplyInputs(_, _, _)
ReapplyInputs(predictedState, unprocessedInputs, i) ==
  IF i > Len(unprocessedInputs) THEN predictedState
  ELSE ReapplyInputs(
         IF predictedState.isAlive
         THEN applyInputToState(predictedState, unprocessedInputs[i].input)
         ELSE predictedState,
         unprocessedInputs, i + 1)

\* snapshot.players.find(p => p.id === playerId)
FindPlayer(players, playerId) ==
  IF MapHas(players, playerId) THEN MapGet(players, playerId) ELSE Null

CP_reconcile_replaysAll(cp, snapshot) ==
  LET serverPlayer == FindPlayer(snapshot.players, cp.playerId)
  IN IF cp.playerId = NoId \/ serverPlayer = Null THEN cp
     ELSE [cp EXCEPT !.predictedState =
             ReapplyInputs([id |-> serverPlayer.id,
                            transform |-> serverPlayer.transform,
                            velocity |-> serverPlayer.velocity,
                            isAlive |-> serverPlayer.isAlive],
                           cp.inputBuffer, 1)]
CP_reconcile(cp, snapshot) ==
  LET serverPlayer == FindPlayer(snapshot.players, cp.playerId)
      unprocessedInputs ==
        SelectSeq(cp.inputBuffer, LAMBDA in : in.sequence > cp.lastAcknowledgedSequence)
  IN IF cp.playerId = NoId \/ serverPlayer = Null THEN cp
     ELSE [cp EXCEPT !.predictedState =
             ReapplyInputs([id |-> serverPlayer.id,
                            transform |-> serverPlayer.transform,
                            velocity |-> serverPlayer.velocity,
                            isAlive |-> serverPlayer.isAlive],
                           unprocessedInputs, 1)]

CP_update(cp, dateNow) ==
  [cp EXCEPT !.inputBuffer =
     SelectSeq(cp.inputBuffer, LAMBDA in : in.timestamp > dateNow - PredictionRetentionMs)]

CP_acknowledgeSequence_assign(cp, sequence) ==
  [cp EXCEPT !.lastAcknowledgedSequence = sequence]
CP_acknowledgeSequence(cp, sequence) ==
  [cp EXCEPT !.lastAcknowledgedSequence = Max(cp.lastAcknowledgedSequence, sequence)]

\* ------------------------------------------------------------------------
\* State
\* ------------------------------------------------------------------------
VARIABLES
  now,         \* Date.now() in ms
  conn,        \* WebSocketServer.clients: the ClientConnection objects
  rooms,       \* the Room objects, by id; registered = held by RoomManager.rooms
  roomCodes,   \* RoomManager.roomCodes, code -> roomId, as a set of pairs
  timers,      \* pending setTimeout callbacks of GameWorld.processCollisions
  s2c,         \* server -> client messages: in flight to the game client; for a
               \* peer, those written to its socket by the latest handler run
  game,        \* Game (client): playerId, roomId, isRunning
  network,     \* NetworkManager (client): socket, inputSequence
  prediction,  \* ClientPrediction (client)
  lastOp,      \* history: the handler that ran last, with its arguments
  hist,        \* history: counters and logs
  steps        \* history: number of events so far

vars == <<now, conn, rooms, roomCodes, timers, s2c, game, network, prediction, lastOp, hist,
         steps>>
serverVars == <<conn, rooms, roomCodes, timers, s2c>>
clientVars == <<game, network, prediction>>

RoomIds == 1..(MaxJoins + 1)
NoRoom == 0
NoCode == ""
maxRooms == 100

\* player names are strings, modelled as sequences of characters
NameChars ==
  {"a","b","c","d","e","f","g","h","i","j","k","l","m","n","o","p","q","r","s","t",
   "u","v","w","x","y","z","A","B","C","D","E","F","G","H","I","J","K","L","M","N",
   "O","P","Q","R","S","T","U","V","W","X","Y","Z","0","1","2","3","4","5","6","7",
   "8","9","_","-"}
NameAl == <<"a", "l">>
NameBo == <<"b", "o">>
NameShort == <<" ", "x">>
NameBad == <<"a", "!">>
NameEmpty == <<>>
NameLong == [i \in 1..21 |-> "a"]

\* findSafeSpawnPosition draws random positions; these are the draws considered
SpawnPositions == {[x |-> 2048 * PosUnits, y |-> 2048 * PosUnits]}

\* ------------------------------------------------------------------------
\* constants.ts: validatePlayerName
\* ------------------------------------------------------------------------
RECURSIVE TrimStart(_)
TrimStart(str) == IF str # <<>> /\ Head(str) = " " THEN TrimStart(Tail(str)) ELSE str
RECURSIVE TrimEnd(_)
TrimEnd(str) ==
  IF str # <<>> /\ str[Len(str)] = " " THEN TrimEnd(SubSeq(str, 1, Len(str) - 1)) ELSE str
Trim(str) == TrimEnd(TrimStart(str))

\* returns the error text, or "" for null
validatePlayerName(name) ==
  LET trimmed == Trim(name)
  IN IF name = <<>> THEN "Name is required"
     ELSE IF Len(trimmed) < 2 THEN "Name must be at least 2 characters"
     ELSE IF Len(trimmed) > 20 THEN "Name must be less than 20 characters"
     ELSE IF \E i \in DOMAIN trimmed : trimmed[i] \notin NameChars
          THEN "Name can only contain letters, numbers, underscores, and hyphens"
     ELSE ""

\* ------------------------------------------------------------------------
\* The server state handled by the handlers below, as one record
\* ------------------------------------------------------------------------
\* (trace: what the running handler did to the simulation and sent, in order)
SV == [conn |-> conn, rooms |-> rooms, roomCodes |-> roomCodes, timers |-> timers,
       s2c |-> [c \in DOMAIN s2c |-> IF c = GameClient THEN s2c[c] ELSE <<>>], trace |-> <<>>]
SetSV(sv) ==
  /\ conn' = sv.conn
  /\ rooms' = sv.rooms
  /\ roomCodes' = sv.roomCodes
  /\ timers' = sv.timers
  /\ s2c' = sv.s2c

NewConnection ==
  [status |-> "idle", player |-> NoRoom, roomId |-> NoRoom,
   inputBuffer |-> <<>>, acknowledged |-> 0]

\* idCounter stands for generateId(): every id it returns is new
\* The constructor runs initializeAsteroids: asteroidCount large asteroids.
\* Position and velocity of the asteroids of a world are not tracked (Null).
asteroidCount == 8
minAsteroids == 4
maxAsteroids == 12
NewGameWorld ==
  [players |-> <<>>,
   asteroids |-> [i \in 1..asteroidCount |-> createAsteroid(i, Null, Null, "large")],
   bullets |-> <<>>, tick |-> 0, lastUpdate |-> 0, idCounter |-> asteroidCount]

NewRoom(id, createdAt) ==
  [id |-> id, registered |-> TRUE, clients |-> <<>>, gameWorld |-> NewGameWorld,
   lastTick |-> 0, isActive |-> FALSE, createdAt |-> createdAt,
   tickInterval |-> FALSE, snapshotInterval |-> FALSE]

SeqToSet(q) == {q[i] : i \in DOMAIN q}
SeqRemove(q, e) == SelectSeq(q, LAMBDA z : z # e)

\* ------------------------------------------------------------------------
\* Room.ts: sending
\* ------------------------------------------------------------------------
Msg(type, data) == [type |-> type, data |-> data]

\* Room.sendMessage / WebSocketServer.sendMessage: only to an OPEN socket
sendMessage(sv, c, message) ==
  IF sv.conn[c].status = "open"
  THEN [sv EXCEPT !.s2c[c] = Append(@, message)]
  ELSE sv
sendError(sv, c, error) == sendMessage(sv, c, Msg("error", [message |-> error]))

broadcastToOthers(sv, r, excludeClientId, message) ==
  [sv EXCEPT !.s2c =
     [c \in DOMAIN sv.s2c |->
        IF c \in SeqToSet(sv.rooms[r].clients) /\ c # excludeClientId
           /\ sv.conn[c].status = "open"
        THEN Append(sv.s2c[c], message) ELSE sv.s2c[c]]]
broadcast(sv, r, message) == broadcastToOthers(sv, r, NoId, message)

\* GameWorld.getGameState
getGameState(gameWorld) ==
  [players |-> gameWorld.players, asteroids |-> gameWorld.asteroids,
   bullets |-> gameWorld.bullets,
   tick |-> gameWorld.tick, timestamp |-> gameWorld.lastUpdate]

\* ------------------------------------------------------------------------
\* Room.ts: start, stop, addClient, removeClient, cleanup, processInput
\* ------------------------------------------------------------------------
Room_start_never(sv, r, dateNow) == sv
Room_start(sv, r, dateNow) ==
  IF sv.rooms[r].isActive THEN sv
  ELSE [sv EXCEPT !.rooms[r].isActive = TRUE,
                  !.rooms[r].lastTick = dateNow,
                  !.rooms[r].tickInterval = TRUE,
                  !.rooms[r].snapshotInterval = TRUE]

Room_stop_keepsTimers(sv, r) ==
  IF ~sv.rooms[r].isActive THEN sv
  ELSE [sv EXCEPT !.rooms[r].isActive = FALSE]
Room_stop(sv, r) ==
  IF ~sv.rooms[r].isActive THEN sv
  ELSE [sv EXCEPT !.rooms[r].isActive = FALSE,
                  !.rooms[r].tickInterval = FALSE,
                  !.rooms[r].snapshotInterval = FALSE]

NameTaken(sv, r, playerName) ==
  \E i \in DOMAIN sv.rooms[r].clients :
     LET existing == sv.conn[sv.rooms[r].clients[i]]
     IN /\ existing.player # NoRoom
        /\ MapHas(sv.rooms[existing.player].gameWorld.players, sv.rooms[r].clients[i])
        /\ MapGet(sv.rooms[existing.player].gameWorld.players,
                  sv.rooms[r].clients[i]).name = playerName

\* the result of addClient is whether conn[c].roomId = r afterwards and a
\* welcome was sent; AddClientOk tells it beforehand
AddClientOk(sv, r, playerName) ==
  /\ Len(sv.rooms[r].clients) < MAX_PLAYERS_PER_ROOM
  /\ validatePlayerName(playerName) = ""
  /\ ~NameTaken(sv, r, playerName)

Room_addClient_unvalidated(sv, r, c, playerName, spawnPosition, dateNow) ==
  IF Len(sv.rooms[r].clients) >= MAX_PLAYERS_PER_ROOM THEN sv
  ELSE IF NameTaken(sv, r, playerName) THEN sendError(sv, c, "Name already taken")
  ELSE
    LET player == createPlayer(c, playerName, spawnPosition)
        sv1 == [sv EXCEPT
                  !.rooms[r].gameWorld.players = MapSet(@, c, player),
                  !.conn[c].player = r,
                  !.conn[c].roomId = r,
                  !.rooms[r].clients = IF c \in SeqToSet(@) THEN @ ELSE Append(@, c)]
        sv2 == sendMessage(sv1, c,
                 Msg("welcome", [playerId |-> c, roomId |-> r,
                                 gameState |-> getGameState(sv1.rooms[r].gameWorld)]))
        sv3 == IF Len(sv2.rooms[r].clients) = 1 THEN Room_start(sv2, r, dateNow) ELSE sv2
    IN broadcastToOthers(sv3, r, c, Msg("playerJoined", [player |-> player]))
Room_addClient(sv, r, c, playerName, spawnPosition, dateNow) ==
  IF Len(sv.rooms[r].clients) >= MAX_PLAYERS_PER_ROOM THEN sv
  ELSE IF validatePlayerName(playerName) # ""
       THEN sendError(sv, c, validatePlayerName(playerName))
  ELSE IF NameTaken(sv, r, playerName) THEN sendError(sv, c, "Name already taken")
  ELSE
    LET player == createPlayer(c, playerName, spawnPosition)
        sv1 == [sv EXCEPT
                  !.rooms[r].gameWorld.players = MapSet(@, c, player),
                  !.conn[c].player = r,
                  !.conn[c].roomId = r,
                  !.rooms[r].clients = IF c \in SeqToSet(@) THEN @ ELSE Append(@, c)]
        sv2 == sendMessage(sv1, c,
                 Msg("welcome", [playerId |-> c, roomId |-> r,
                                 gameState |-> getGameState(sv1.rooms[r].gameWorld)]))
        sv3 == IF Len(sv2.rooms[r].clients) = 1 THEN Room_start(sv2, r, dateNow) ELSE sv2
    IN broadcastToOthers(sv3, r, c, Msg("playerJoined", [player |-> player]))

Room_removeClient_keepsPlayer(sv, r, clientId) ==
  IF clientId \notin SeqToSet(sv.rooms[r].clients) THEN sv
  ELSE
    LET sv1 == [sv EXCEPT !.rooms[r].clients = SeqRemove(@, clientId)]
        sv2 == broadcast(sv1, r, Msg("playerLeft",
                                     [playerId |-> clientId, playerName |-> <<>>]))
    IN IF Len(sv2.rooms[r].clients) = 0 THEN Room_stop(sv2, r) ELSE sv2
Room_removeClient(sv, r, clientId) ==
  IF clientId \notin SeqToSet(sv.rooms[r].clients) THEN sv
  ELSE
    LET players == sv.rooms[r].gameWorld.players
        playerName == IF sv.conn[clientId].player # NoRoom
                         /\ MapHas(sv.rooms[sv.conn[clientId].player].gameWorld.players, clientId)
                      THEN MapGet(sv.rooms[sv.conn[clientId].player].gameWorld.players,
                                  clientId).name
                      ELSE <<"U","n","k","n","o","w","n">>
        sv1 == [sv EXCEPT !.rooms[r].gameWorld.players = MapDelete(@, clientId),
                          !.rooms[r].clients = SeqRemove(@, clientId)]
        sv2 == broadcast(sv1, r, Msg("playerLeft",
                                     [playerId |-> clientId, playerName |-> playerName]))
    IN IF Len(sv2.rooms[r].clients) = 0 THEN Room_stop(sv2, r) ELSE sv2

\* cleanup closes the sockets of the clients it still holds
Room_cleanup(sv, r) ==
  LET sv1 == Room_stop(sv, r)
  IN [sv1 EXCEPT
        !.conn = [c \in DOMAIN sv1.conn |->
                    IF c \in SeqToSet(sv1.rooms[r].clients) /\ sv1.conn[c].status = "open"
                    THEN [sv1.conn[c] EXCEPT !.status = "closing"] ELSE sv1.conn[c]],
        !.rooms[r].clients = <<>>]

Room_processInput_lastWins(sv, r, clientId, inputData, uid) ==
  IF clientId \notin SeqToSet(sv.rooms[r].clients) \/ sv.conn[clientId].player = NoRoom
  THEN sv
  ELSE [sv EXCEPT
          !.conn[clientId].inputBuffer =
             Append(@, [sequence |-> inputData.sequence, timestamp |-> inputData.timestamp,
                        input |-> inputData.input, processed |-> FALSE, uid |-> uid]),
          !.conn[clientId].acknowledged = inputData.sequence]
Room_processInput(sv, r, clientId, inputData, uid) ==
  IF clientId \notin SeqToSet(sv.rooms[r].clients) \/ sv.conn[clientId].player = NoRoom
  THEN sv
  ELSE
    LET inputEntry == [sequence |-> inputData.sequence, timestamp |-> inputData.timestamp,
                       input |-> inputData.input, processed |-> FALSE, uid |-> uid]
        pushed == Append(sv.conn[clientId].inputBuffer, inputEntry)
    IN [sv EXCEPT
          !.conn[clientId].inputBuffer =
             IF Len(pushed) > InputBufferLimit THEN Tail(pushed) ELSE pushed,
          !.conn[clientId].acknowledged =
             IF inputData.sequence > @ THEN inputData.sequence ELSE @]

\* ------------------------------------------------------------------------
\* RoomManager.ts
\* ------------------------------------------------------------------------
Registered(sv) == {r \in DOMAIN sv.rooms : sv.rooms[r] # Null /\ sv.rooms[r].registered}
\* a new Room gets a fresh id (generateId)
FreshRoomId(sv) ==
  CHOOSE r \in DOMAIN sv.rooms : sv.rooms[r] = Null /\ \A q \in 1..(r - 1) : sv.rooms[q] # Null
CodeOf(r) == "G" \o ToString(r)
LookupCode(sv, code) ==
  IF \E e \in sv.roomCodes : e.code = code
  THEN (CHOOSE e \in sv.roomCodes : e.code = code).roomId ELSE NoRoom

CanCreateRoom_always(sv) == TRUE
CanCreateRoom(sv) == Cardinality(Registered(sv)) < maxRooms

\* createRoom(roomCode): the room id it returns is FreshRoomId(sv)
RoomManager_createRoom(sv, roomCode, dateNow) ==
  LET roomId == FreshRoomId(sv)
      code == IF roomCode # NoCode THEN roomCode ELSE CodeOf(roomId)
  IN [sv EXCEPT !.rooms[roomId] = NewRoom(roomId, dateNow),
                !.roomCodes = {e \in @ : e.code # code} \cup {[code |-> code, roomId |-> roomId]}]

HasSlot(sv, r) == Len(sv.rooms[r].clients) < MAX_PLAYERS_PER_ROOM

\* findOrCreateRoom(roomCode): the room found, or NoRoom when one must be created
FindRoom(sv, roomCode) ==
  IF roomCode # NoCode
  THEN LET roomId == LookupCode(sv, roomCode)
       IN IF roomId # NoRoom /\ roomId \in Registered(sv) /\ HasSlot(sv, roomId)
          THEN roomId ELSE NoRoom
  ELSE IF \E r \in Registered(sv) : HasSlot(sv, r)
       THEN CHOOSE r \in Registered(sv) :
              HasSlot(sv, r) /\ \A q \in Registered(sv) : HasSlot(sv, q) => r <= q
       ELSE NoRoom

\* joinRoom: returns the new state; JoinRoomOk tells its boolean result
JoinRoomOk(sv, c, playerName, roomCode) ==
  LET found == FindRoom(sv, roomCode)
  IN IF found # NoRoom THEN AddClientOk(sv, found, playerName)
     ELSE CanCreateRoom(sv) /\ validatePlayerName(playerName) = ""

RoomManager_joinRoom(sv, c, playerName, roomCode, spawnPosition, dateNow) ==
  LET found == FindRoom(sv, roomCode)
  IN IF found # NoRoom
     THEN Room_addClient(sv, found, c, playerName, spawnPosition, dateNow)
     ELSE IF ~CanCreateRoom(sv) THEN sv
     ELSE Room_addClient(RoomManager_createRoom(sv, roomCode, dateNow),
                         FreshRoomId(sv), c, playerName, spawnPosition, dateNow)

RoomManager_removeRoom(sv, roomId) ==
  IF roomId \notin Registered(sv) THEN sv
  ELSE LET sv1 == [sv EXCEPT !.roomCodes = {e \in @ : e.roomId # roomId}]
           sv2 == Room_cleanup(sv1, roomId)
       IN [sv2 EXCEPT !.rooms[roomId].registered = FALSE]

RoomManager_leaveRoom(sv, c) ==
  LET roomId == sv.conn[c].roomId
  IN IF roomId = NoRoom THEN sv
     ELSE LET sv1 == IF roomId \in Registered(sv)
                     THEN LET left == Room_removeClient(sv, roomId, c)
                          IN IF Len(left.rooms[roomId].clients) = 0
                             THEN RoomManager_removeRoom(left, roomId) ELSE left
                     ELSE sv
          IN [sv1 EXCEPT !.conn[c].roomId = NoRoom, !.conn[c].player = NoRoom]

RoomManager_processInput(sv, c, inputData, uid) ==
  LET roomId == sv.conn[c].roomId
  IN IF roomId = NoRoom \/ roomId \notin Registered(sv) THEN sv
     ELSE Room_processInput(sv, roomId, c, inputData, uid)

\* ------------------------------------------------------------------------
\* WebSocketServer.ts
\* ------------------------------------------------------------------------
handleConnection(sv, c) ==
  [sv EXCEPT !.conn[c] = [NewConnection EXCEPT !.status = "open"]]

handleJoin(sv, c, data, spawnPosition, dateNow) ==
  IF data.name = <<>> THEN sendError(sv, c, "Invalid player name")
  ELSE LET joined == RoomManager_joinRoom(sv, c, data.name, data.roomId,
                                          spawnPosition, dateNow)
       IN IF JoinRoomOk(sv, c, data.name, data.roomId) THEN joined
          ELSE sendError(joined, c, "Failed to join room")

handleInput(sv, c, data, uid) ==
  IF sv.conn[c].roomId = NoRoom THEN sv
  ELSE RoomManager_processInput(sv, c, data, uid)

handleLeave(sv, c) == RoomManager_leaveRoom(sv, c)

\* the 'close' event of the socket; nothing is delivered to it afterwards
handleDisconnection(sv, c) ==
  LET sv1 == RoomManager_leaveRoom(sv, c)
  IN [sv1 EXCEPT !.conn[c].status = "closed", !.s2c[c] = <<>>]

\* ------------------------------------------------------------------------
\* entities.ts: bullets
\* ------------------------------------------------------------------------
createBullet(id, playerId, position, direction, timestamp) ==
  [id |-> id, playerId |-> playerId, position |-> position,
   velocity |-> Vec2_multiply(Vec2_normalize(direction), BULLET_SPEED, Q),
   createdAt |-> timestamp, lifetime |-> BULLET_LIFETIME]

\* updateBullet: the bullet after the step; it has expired when lifetime <= 0
updateBullet(bullet, deltaTime) ==
  [bullet EXCEPT
     !.position = wrapPosition(
        Vec2_add(@, Vec2_multiply(bullet.velocity, deltaTime,
                                  (VelUnits * UnitsPerSec) \div PosUnits)),
        WORLD_WIDTH, WORLD_HEIGHT),
     !.lifetime = @ - deltaTime \div UnitsPerMs]

\* ------------------------------------------------------------------------
\* collision.ts: damagePlayerFromCollision
\* ------------------------------------------------------------------------
\* the player after the call, and the value returned (player was destroyed)
damagePlayerFromCollision_ungated(player, damage, currentTime) ==
  IF player.health - damage <= 0
  THEN [player |-> [player EXCEPT !.health = 0, !.isAlive = FALSE,
                                  !.lives = Max(0, player.lives - 1)],
        destroyed |-> TRUE]
  ELSE [player |-> [player EXCEPT !.health = @ - damage], destroyed |-> FALSE]
damagePlayerFromCollision(player, damage, currentTime) ==
  IF currentTime < player.invulnerableUntil \/ ~player.isAlive
  THEN [player |-> player, destroyed |-> FALSE]
  ELSE IF player.health - damage <= 0
       THEN [player |-> [player EXCEPT !.health = 0, !.isAlive = FALSE,
                                       !.lives = Max(0, player.lives - 1)],
             destroyed |-> TRUE]
       ELSE [player |-> [player EXCEPT !.health = @ - damage], destroyed |-> FALSE]

\* ------------------------------------------------------------------------
\* gameWorld.ts
\* ------------------------------------------------------------------------
GameWorld_shootBullet(world, player, currentTime) ==
  LET bulletDirection == Vec2_fromAngle(player.transform.rotation, Q)
      bulletStartPos == Vec2_add(player.transform.position,
                                 Vec2_multiply(bulletDirection, 12 * PosUnits, Q))
      bullet == createBullet(world.idCounter + 1, player.id, bulletStartPos,
                             bulletDirection, currentTime)
  IN [world EXCEPT !.idCounter = @ + 1,
                   !.bullets = Append(@, bullet),
                   !.players = MapSet(@, player.id,
                                      [player EXCEPT !.lastShotTime = currentTime])]

GameWorld_processInput(world, playerId, input, currentTime) ==
  IF ~MapHas(world.players, playerId) \/ ~MapGet(world.players, playerId).isAlive
  THEN world
  ELSE IF input.shoot /\ canPlayerShoot(MapGet(world.players, playerId), currentTime)
       THEN GameWorld_shootBullet(world, MapGet(world.players, playerId), currentTime)
       ELSE world

GameWorld_updatePlayerMovement(world, playerId, input, deltaTime) ==
  IF ~MapHas(world.players, playerId) \/ ~MapGet(world.players, playerId).isAlive
  THEN world
  ELSE [world EXCEPT !.players =
          MapSet(@, playerId,
                 updatePlayerMovement(MapGet(world.players, playerId), input, deltaTime))]

\* resolveCollisions.  The events are those CollisionSystem.update found:
\* sequences of [playerId, asteroidId], [bulletId, asteroidId] and
\* [playerId, bulletId].  The players are damaged in place; the result
\* carries them together with the lists the source returns.
RECURSIVE DamagePlayers(_, _, _, _, _)
DamagePlayers(acc, collisions, i, damage, currentTime) ==
  IF i > Len(collisions) THEN acc
  ELSE LET player == MapGet(acc.players, collisions[i].playerId)
           damaged == damagePlayerFromCollision(player, damage, currentTime)
       IN DamagePlayers(
            [players |-> MapSet(acc.players, player.id, damaged.player),
             destroyedPlayers |->
               IF damaged.destroyed
               THEN Append(acc.destroyedPlayers, player.id)
               ELSE acc.destroyedPlayers],
            collisions, i + 1, damage, currentTime)

\* splitAsteroidFromBullet returns [] before its dynamic import resolves
splitAsteroidFromBullet(asteroid) == <<>>

getAsteroidScore(asteroid) ==
  CASE asteroid.size = "large" -> 20
    [] asteroid.size = "medium" -> 50
    [] asteroid.size = "small" -> 100
    [] OTHER -> 0

RECURSIVE Flatten(_)
Flatten(qq) == IF qq = <<>> THEN <<>> ELSE Head(qq) \o Flatten(Tail(qq))

resolveCollisions(events, players, asteroids, bullets, currentTime) ==
  LET byAsteroid == DamagePlayers([players |-> players, destroyedPlayers |-> <<>>],
                                  events.playerAsteroidCollisions, 1, 100, currentTime)
      byBullet == DamagePlayers(byAsteroid, events.playerBulletCollisions, 1, 25,
                                currentTime)
      shot == events.bulletAsteroidCollisions
  IN [players |-> byBullet.players,
      destroyedPlayers |-> byBullet.destroyedPlayers,
      destroyedAsteroids |-> [i \in DOMAIN shot |-> shot[i].asteroidId],
      destroyedBullets |->
        [i \in DOMAIN shot |-> shot[i].bulletId]
          \o [i \in DOMAIN events.playerBulletCollisions |->
                events.playerBulletCollisions[i].bulletId],
      newAsteroids |->
        Flatten([i \in DOMAIN shot |->
                   splitAsteroidFromBullet(MapGet(asteroids, shot[i].asteroidId))]),
      scoreUpdates |->
        [i \in DOMAIN shot |->
           [playerId |-> MapGet(bullets, shot[i].bulletId).playerId,
            points |-> getAsteroidScore(MapGet(asteroids, shot[i].asteroidId))]]]

\* GameWorld.processCollisions, after detection: ctx = [room, currentTime]
RECURSIVE ApplyDestroyed_always(_, _, _, _, _)
ApplyDestroyed_always(players, timerList, destroyedPlayers, i, ctx) ==
  IF i > Len(destroyedPlayers) THEN [players |-> players, timers |-> timerList]
  ELSE IF ~MapHas(players, destroyedPlayers[i])
       THEN ApplyDestroyed_always(players, timerList, destroyedPlayers, i + 1, ctx)
  ELSE LET player == MapGet(players, destroyedPlayers[i])
       IN ApplyDestroyed_always(
            MapSet(players, player.id, [player EXCEPT !.isAlive = FALSE, !.health = 0]),
            Append(timerList, [room |-> ctx.room, playerId |-> player.id,
                               fireAt |-> ctx.currentTime + RespawnDelayMs,
                               currentTime |-> ctx.currentTime + RespawnDelayMs]),
            destroyedPlayers, i + 1, ctx)
RECURSIVE ApplyDestroyed(_, _, _, _, _)
ApplyDestroyed(players, timerList, destroyedPlayers, i, ctx) ==
  IF i > Len(destroyedPlayers) THEN [players |-> players, timers |-> timerList]
  ELSE IF ~MapHas(players, destroyedPlayers[i])
       THEN ApplyDestroyed(players, timerList, destroyedPlayers, i + 1, ctx)
  ELSE LET player == MapGet(players, destroyedPlayers[i])
       IN ApplyDestroyed(
            MapSet(players, player.id, [player EXCEPT !.isAlive = FALSE, !.health = 0]),
            IF player.lives > 0
            THEN Append(timerList, [room |-> ctx.room, playerId |-> player.id,
                                    fireAt |-> ctx.currentTime + RespawnDelayMs,
                                    currentTime |-> ctx.currentTime + RespawnDelayMs])
            ELSE timerList,
            destroyedPlayers, i + 1, ctx)

RECURSIVE ApplyScores_everyone(_, _, _)
ApplyScores_everyone(players, scoreUpdates, i) ==
  IF i > Len(scoreUpdates) THEN players
  ELSE ApplyScores_everyone(
         [j \in DOMAIN players |->
            [players[j] EXCEPT !.score = @ + scoreUpdates[i].points]],
         scoreUpdates, i + 1)
RECURSIVE ApplyScores(_, _, _)
ApplyScores(players, scoreUpdates, i) ==
  IF i > Len(scoreUpdates) THEN players
  ELSE ApplyScores(
         IF MapHas(players, scoreUpdates[i].playerId)
         THEN MapSet(players, scoreUpdates[i].playerId,
                     [MapGet(players, scoreUpdates[i].playerId)
                        EXCEPT !.score = @ + scoreUpdates[i].points])
         ELSE players,
         scoreUpdates, i + 1)

RECURSIVE MapSetAll(_, _)
MapSetAll(m, q) == IF q = <<>> THEN m ELSE MapSetAll(MapSet(m, Head(q).id, Head(q)), Tail(q))

GameWorld_processCollisions(world, timerList, events, ctx) ==
  LET result == resolveCollisions(events, world.players, world.asteroids, world.bullets,
                                  ctx.currentTime)
      applied == ApplyDestroyed(result.players, timerList, result.destroyedPlayers, 1, ctx)
      asteroids == SelectSeq(world.asteroids,
                             LAMBDA a : a.id \notin SeqToSet(result.destroyedAsteroids))
      bullets == SelectSeq(world.bullets,
                           LAMBDA b : b.id \notin SeqToSet(result.destroyedBullets))
  IN [world |-> [world EXCEPT
                   !.players = ApplyScores(applied.players, result.scoreUpdates, 1),
                   !.asteroids = MapSetAll(asteroids, result.newAsteroids),
                   !.bullets = bullets],
      timers |-> applied.timers]

\* CollisionSystem.update reports each overlapping pair once (the spatial
\* hash returns a set of candidates): living players with asteroids, bullets
\* with asteroids, living players with bullets that are not their own.
\* Overlaps is the set of pairs it can report in a world, each tagged with
\* its kind.
Overlaps_ownBullets(world) ==
  LET alive == {p \in SeqToSet(world.players) : p.isAlive}
  IN {<<"playerAsteroid", p.id, a.id>> : p \in alive, a \in SeqToSet(world.asteroids)}
       \cup {<<"bulletAsteroid", b.id, a.id>> : b \in SeqToSet(world.bullets),
                                               a \in SeqToSet(world.asteroids)}
       \cup {<<"playerBullet", p.id, b.id>> : p \in alive, b \in SeqToSet(world.bullets)}
Overlaps(world) ==
  LET alive == {p \in SeqToSet(world.players) : p.isAlive}
  IN {<<"playerAsteroid", p.id, a.id>> : p \in alive, a \in SeqToSet(world.asteroids)}
       \cup {<<"bulletAsteroid", b.id, a.id>> : b \in SeqToSet(world.bullets),
                                               a \in SeqToSet(world.asteroids)}
       \cup {e \in {<<"playerBullet", p.id, b.id>> : p \in alive,
                                                   b \in SeqToSet(world.bullets)} :
               MapGet(world.bullets, e[3]).playerId # e[2]}
\* the pairs of kind found, in the order the nested loops over two Maps meet them
OrderedPairs(m1, m2, kind, found) ==
  Flatten([i \in DOMAIN m1 |->
             SelectSeq([j \in DOMAIN m2 |-> <<kind, m1[i].id, m2[j].id>>],
                       LAMBDA e : e \in found)])
CollisionEvents(world, found) ==
  LET q1 == OrderedPairs(world.players, world.asteroids, "playerAsteroid", found)
      q2 == OrderedPairs(world.bullets, world.asteroids, "bulletAsteroid", found)
      q3 == OrderedPairs(world.players, world.bullets, "playerBullet", found)
  IN [playerAsteroidCollisions |->
        [i \in DOMAIN q1 |-> [playerId |-> q1[i][2], asteroidId |-> q1[i][3]]],
      bulletAsteroidCollisions |->
        [i \in DOMAIN q2 |-> [bulletId |-> q2[i][2], asteroidId |-> q2[i][3]]],
      playerBulletCollisions |->
        [i \in DOMAIN q3 |-> [playerId |-> q3[i][2], bulletId |-> q3[i][3]]]]

\* GameWorld.maintainAsteroidCount
GameWorld_maintainAsteroidCount_never(world) == world
GameWorld_maintainAsteroidCount(world) ==
  IF Len(world.asteroids) < minAsteroids
  THEN LET spawnCount == minAsteroids - Len(world.asteroids)
       IN [world EXCEPT
             !.idCounter = @ + spawnCount,
             !.asteroids = @ \o [i \in 1..spawnCount |->
                                   createAsteroid(world.idCounter + i, Null, Null, "large")]]
  ELSE world

\* GameWorld.update(deltaTime, currentTime), in room r.  Where the asteroids
\* are is not tracked: the collisions CollisionSystem.update detects in this
\* tick (events) are the environment's choice among those it can report.
GameWorld_updateBullets_keepsExpired(world, deltaTime) ==
  [world EXCEPT !.bullets =
     [i \in DOMAIN world.bullets |-> updateBullet(world.bullets[i], deltaTime)]]
GameWorld_updateBullets(world, deltaTime) ==
  LET moved == [i \in DOMAIN world.bullets |-> updateBullet(world.bullets[i], deltaTime)]
  IN [world EXCEPT !.bullets = SelectSeq(moved, LAMBDA b : b.lifetime > 0)]
GameWorld_update(sv, r, deltaTime, currentTime, events) ==
  LET world == sv.rooms[r].gameWorld
      collided == GameWorld_processCollisions(
                    [GameWorld_updateBullets(world, deltaTime)
                       EXCEPT !.tick = @ + 1, !.lastUpdate = currentTime],
                    sv.timers, events, [room |-> r, currentTime |-> currentTime])
  IN [sv EXCEPT !.rooms[r].gameWorld = GameWorld_maintainAsteroidCount(collided.world),
                !.timers = collided.timers,
                !.trace = Append(@, [ev |-> "update", room |-> r])]

GameWorld_respawnPlayerSafely(world, playerId, currentTime, spawnPosition) ==
  IF ~MapHas(world.players, playerId) \/ MapGet(world.players, playerId).lives <= 0
  THEN world
  ELSE [world EXCEPT !.players =
          MapSet(@, playerId,
                 respawnPlayer(MapGet(world.players, playerId), spawnPosition, currentTime))]

\* ------------------------------------------------------------------------
\* Room.ts: tick, processClientInput, broadcastSnapshot
\* ------------------------------------------------------------------------
\* client.player is the Player object the connection joined with
ClientPlayerAlive(sv, c) ==
  /\ sv.conn[c].player # NoRoom
  /\ MapHas(sv.rooms[sv.conn[c].player].gameWorld.players, c)
  /\ MapGet(sv.rooms[sv.conn[c].player].gameWorld.players, c).isAlive

\* the body of the loop over the input buffer, for entry i
ProcessEntry(sv, r, c, deltaTime, i) ==
  LET inputEntry == sv.conn[c].inputBuffer[i]
  IN IF inputEntry.processed THEN sv
     ELSE [sv EXCEPT
             !.rooms[r].gameWorld =
                GameWorld_updatePlayerMovement(
                  GameWorld_processInput(@, c, inputEntry.input, inputEntry.timestamp),
                  c, inputEntry.input, deltaTime),
             !.conn[c].inputBuffer[i].processed = TRUE,
             !.trace = Append(@, [ev |-> "input", room |-> r, client |-> c,
                                  uid |-> inputEntry.uid,
                                  sequence |-> inputEntry.sequence,
                                  timestamp |-> inputEntry.timestamp,
                                  input |-> inputEntry.input,
                                  deltaTime |-> deltaTime])]
\* the loop over entries first..last, in order: the first half, then the
\* second half on what the first half left
RECURSIVE ProcessEntries(_, _, _, _, _, _)
ProcessEntries(sv, r, c, deltaTime, first, last) ==
  IF first > Min(last, Len(sv.conn[c].inputBuffer)) THEN sv
  ELSE IF first = last THEN ProcessEntry(sv, r, c, deltaTime, first)
  ELSE LET mid == (first + last) \div 2
       IN ProcessEntries(ProcessEntries(sv, r, c, deltaTime, first, mid),
                         r, c, deltaTime, mid + 1, last)

Room_processClientInput(sv, r, c, deltaTime, dateNow) ==
  IF ~ClientPlayerAlive(sv, c) THEN sv
  ELSE LET sv1 == ProcessEntries(sv, r, c, deltaTime, 1, Len(sv.conn[c].inputBuffer))
       IN [sv1 EXCEPT !.conn[c].inputBuffer =
             SelectSeq(@, LAMBDA in : in.timestamp > dateNow - InputRetentionMs)]

RECURSIVE ProcessClients(_, _, _, _, _)
ProcessClients(sv, r, deltaTime, dateNow, i) ==
  IF i > Len(sv.rooms[r].clients) THEN sv
  ELSE ProcessClients(
         Room_processClientInput(sv, r, sv.rooms[r].clients[i], deltaTime, dateNow),
         r, deltaTime, dateNow, i + 1)

RECURSIVE SendAcks(_, _, _)
SendAcks(sv, r, i) ==
  IF i > Len(sv.rooms[r].clients) THEN sv
  ELSE LET c == sv.rooms[r].clients[i]
       IN SendAcks(
            IF sv.conn[c].acknowledged > 0
            THEN [sendMessage(sv, c, Msg("ack", [sequence |-> sv.conn[c].acknowledged]))
                    EXCEPT !.trace =
                      IF sv.conn[c].status = "open"
                      THEN Append(@, [ev |-> "ack", room |-> r, client |-> c,
                                      sequence |-> sv.conn[c].acknowledged])
                      ELSE @]
            ELSE sv,
            r, i + 1)

Room_tick_updateFirst(sv, r, dateNow, events) ==
  LET deltaTime == (dateNow - sv.rooms[r].lastTick) * UnitsPerMs
      sv1 == [sv EXCEPT !.rooms[r].lastTick = dateNow]
      sv2 == GameWorld_update(sv1, r, deltaTime, dateNow, events)
      sv3 == ProcessClients(sv2, r, deltaTime, dateNow, 1)
  IN SendAcks(sv3, r, 1)
\* Room.tick at time dateNow
Room_tick(sv, r, dateNow, events) ==
  LET deltaTime == (dateNow - sv.rooms[r].lastTick) * UnitsPerMs
      sv1 == [sv EXCEPT !.rooms[r].lastTick = dateNow]
      sv2 == ProcessClients(sv1, r, deltaTime, dateNow, 1)
      sv3 == GameWorld_update(sv2, r, deltaTime, dateNow, events)
  IN SendAcks(sv3, r, 1)

\* the snapshot goes to every client but the first of the room
Room_broadcastSnapshot_toOthers(sv, r) ==
  IF Len(sv.rooms[r].clients) = 0 THEN sv
  ELSE LET gameState == getGameState(sv.rooms[r].gameWorld)
       IN broadcastToOthers(sv, r, sv.rooms[r].clients[1], Msg("snapshot",
            [tick |-> gameState.tick, timestamp |-> gameState.timestamp,
             players |-> gameState.players, bullets |-> gameState.bullets]))

Room_broadcastSnapshot(sv, r) ==
  IF Len(sv.rooms[r].clients) = 0 THEN sv
  ELSE LET gameState == getGameState(sv.rooms[r].gameWorld)
       IN broadcast(sv, r, Msg("snapshot",
            [tick |-> gameState.tick, timestamp |-> gameState.timestamp,
             players |-> gameState.players, bullets |-> gameState.bullets]))

\* ------------------------------------------------------------------------
\* Inputs considered
\* ------------------------------------------------------------------------
Input(thrust, rotate, brake, shoot) ==
  [thrust |-> thrust, rotate |-> rotate, brake |-> brake, shoot |-> shoot]
GameInputs == {Input(FALSE, 1, FALSE, FALSE), Input(TRUE, 0, FALSE, TRUE)}
PeerInputs == {Input(TRUE, 1, FALSE, FALSE)}
GameNames == {NameAl}
PeerNames == {NameAl, NameBo, NameBad}
JoinCodes == {NoCode, "PARTY"}

\* ------------------------------------------------------------------------
\* Initial state: the server has started, nobody has connected
\* ------------------------------------------------------------------------
NewHist ==
  [joins |-> 0, ticks |-> 0, snapshots |-> 0, hits |-> 0, clockSteps |-> 0,
   idleSteps |-> 0, peerInputs |-> 0, uid |-> 0,
   applied |-> [c \in Conns |-> <<>>],
   received |-> [c \in Conns |-> {}],
   acksSent |-> [c \in Conns |-> <<>>],
   acked |-> {},
   deaths |-> [c \in Conns |-> 0],
   credited |-> [c \in Conns |-> 0],
   stale |-> {},
   whileDead |-> {}]

Init ==
  /\ now = 0
  /\ conn = [c \in Conns |-> NewConnection]
  /\ rooms = [r \in RoomIds |-> Null]
  /\ roomCodes = {}
  /\ timers = <<>>
  /\ s2c = [c \in Conns |-> <<>>]
  /\ game = [playerId |-> NoId, roomId |-> NoRoom, isRunning |-> FALSE]
  /\ network = [socket |-> "none", inputSequence |-> 0]
  /\ prediction = NewPrediction
  /\ lastOp = [op |-> "init"]
  /\ hist = NewHist
  /\ steps = 0

Budget == steps < MaxSteps /\ steps' = steps + 1
PredBudget == steps < MaxPredSteps /\ steps' = steps + 1

\* sequences accepted into the buffer of connection c by a handler run
Accepted(before, after, c, sequence) ==
  IF after.conn[c].inputBuffer # before.conn[c].inputBuffer THEN {sequence} ELSE {}
\* the record uid if it was buffered while the player of c was not alive
BufferedWhileDead(before, after, c, uid) ==
  IF after.conn[c].inputBuffer # before.conn[c].inputBuffer /\ ~ClientPlayerAlive(before, c)
  THEN {uid} ELSE {}

\* ------------------------------------------------------------------------
\* The game client (connection GameClient): Game.ts, NetworkManager.ts
\* ------------------------------------------------------------------------
\* Game.joinGame: connect, and on open send join{name}
GameJoin(name, spawnPosition) ==
  /\ Budget
  /\ network.socket = "none"
  /\ conn[GameClient].status = "idle"
  /\ hist.joins < MaxJoins
  /\ network' = [network EXCEPT !.socket = "open"]
  /\ SetSV(handleJoin(handleConnection(SV, GameClient), GameClient,
                      [name |-> name, roomId |-> NoCode], spawnPosition, now))
  /\ hist' = [hist EXCEPT !.joins = @ + 1]
  /\ lastOp' = [op |-> "join", client |-> GameClient, name |-> name, roomCode |-> NoCode,
                ok |-> JoinRoomOk(handleConnection(SV, GameClient), GameClient, name, NoCode)]
  /\ UNCHANGED <<now, game, prediction>>

\* Game.setupEventHandlers, input.onInputChange
GameInput(inputState) ==
  /\ Budget
  /\ game.playerId # NoId
  /\ game.isRunning
  /\ prediction.sequenceNumber < MaxSeq
  /\ prediction' = CP_applyInput(prediction, game.playerId, inputState, now)
  /\ IF network.socket = "open"
     THEN LET data == [sequence |-> network.inputSequence + 1, timestamp |-> now,
                       input |-> inputState]
              after == handleInput(SV, GameClient, data, hist.uid + 1)
          IN /\ network' = [network EXCEPT !.inputSequence = @ + 1]
             /\ SetSV(after)
             /\ hist' = [hist EXCEPT
                           !.uid = @ + 1,
                           !.received[GameClient] =
                              @ \cup Accepted(SV, after, GameClient, data.sequence),
                           !.whileDead =
                              @ \cup BufferedWhileDead(SV, after, GameClient, hist.uid + 1)]
     ELSE UNCHANGED <<network, serverVars, hist>>
  /\ lastOp' = [op |-> "input", client |-> GameClient]
  /\ UNCHANGED <<now, game>>

\* NetworkManager.handleMessage with the handlers Game.setupNetworkHandlers sets
GameReceive ==
  /\ Budget
  /\ network.socket = "open"
  /\ s2c[GameClient] # <<>>
  /\ LET message == Head(s2c[GameClient])
     IN /\ s2c' = [s2c EXCEPT ![GameClient] = Tail(@)]
        /\ CASE message.type = "welcome" ->
                  /\ game' = [playerId |-> message.data.playerId,
                              roomId |-> message.data.roomId, isRunning |-> TRUE]
                  /\ prediction' = CP_setPlayerId(prediction, message.data.playerId)
             [] message.type = "snapshot" ->
                  /\ prediction' = CP_reconcile(prediction, message.data)
                  /\ UNCHANGED game
             [] OTHER -> UNCHANGED <<game, prediction>>
        /\ lastOp' = [op |-> "receive", client |-> GameClient, message |-> message]
        /\ hist' = [hist EXCEPT !.acked =
                      IF message.type = "ack" THEN @ \cup {message.data.sequence} ELSE @]
  /\ UNCHANGED <<now, conn, rooms, roomCodes, timers, network>>

\* Game.leaveGame: NetworkManager.disconnect sends leave and closes the socket
GameLeave ==
  /\ Budget
  /\ network.socket = "open"
  /\ network' = [network EXCEPT !.socket = "closed"]
  /\ game' = [playerId |-> NoId, roomId |-> NoRoom, isRunning |-> FALSE]
  /\ SetSV(handleDisconnection(handleLeave(SV, GameClient), GameClient))
  /\ lastOp' = [op |-> "leave", client |-> GameClient]
  /\ UNCHANGED <<now, prediction, hist>>

\* Game.update in the game loop
GameUpdate ==
  /\ Budget
  /\ game.isRunning
  /\ prediction' = CP_update(prediction, now)
  /\ lastOp' = [op |-> "update", client |-> GameClient]
  /\ UNCHANGED <<now, serverVars, game, network, hist>>

\* ------------------------------------------------------------------------
\* Peers: connections that send protocol messages of their own making
\* ------------------------------------------------------------------------
PeerConnect(c) ==
  /\ Budget
  /\ c # GameClient
  /\ conn[c].status = "idle"
  /\ SetSV(handleConnection(SV, c))
  /\ lastOp' = [op |-> "connect", client |-> c]
  /\ UNCHANGED <<now, clientVars, hist>>

PeerJoin(c, name, roomCode, spawnPosition) ==
  /\ Budget
  /\ c # GameClient
  /\ conn[c].status = "open"
  /\ hist.joins < MaxJoins
  /\ SetSV(handleJoin(SV, c, [name |-> name, roomId |-> roomCode], spawnPosition, now))
  /\ hist' = [hist EXCEPT !.joins = @ + 1]
  /\ lastOp' = [op |-> "join", client |-> c, name |-> name, roomCode |-> roomCode,
                ok |-> JoinRoomOk(SV, c, name, roomCode)]
  /\ UNCHANGED <<now, clientVars>>

PeerInput(c, sequence, inputState) ==
  /\ Budget
  /\ c # GameClient
  /\ conn[c].status = "open"
  /\ hist.peerInputs < MaxSeq
  /\ LET data == [sequence |-> sequence, timestamp |-> now, input |-> inputState]
         after == handleInput(SV, c, data, hist.uid + 1)
     IN /\ SetSV(after)
        /\ hist' = [hist EXCEPT !.uid = @ + 1, !.peerInputs = @ + 1,
                                !.received[c] = @ \cup Accepted(SV, after, c, sequence),
                                !.whileDead =
                                   @ \cup BufferedWhileDead(SV, after, c, hist.uid + 1)]
  /\ lastOp' = [op |-> "input", client |-> c]
  /\ UNCHANGED <<now, clientVars>>

PeerLeave(c) ==
  /\ Budget
  /\ c # GameClient
  /\ conn[c].status = "open"
  /\ conn[c].roomId # NoRoom
  /\ SetSV(handleLeave(SV, c))
  /\ lastOp' = [op |-> "leave", client |-> c]
  /\ UNCHANGED <<now, clientVars, hist>>

PeerClose(c) ==
  /\ Budget
  /\ c # GameClient
  /\ conn[c].status = "open"
  /\ SetSV(handleDisconnection(SV, c))
  /\ lastOp' = [op |-> "close", client |-> c]
  /\ UNCHANGED <<now, clientVars, hist>>

\* ------------------------------------------------------------------------
\* Timers of the server
\* ------------------------------------------------------------------------
AlivePlayers(r) ==
  {rooms[r].gameWorld.players[i].id :
     i \in {j \in DOMAIN rooms[r].gameWorld.players : rooms[r].gameWorld.players[j].isAlive}}

TraceOf(trace, kind, c) ==
  SelectSeq(trace, LAMBDA e : e.ev = kind /\ e.client = c)
Field(trace, f) == [i \in DOMAIN trace |-> trace[i][f]]

\* the tick interval of room r fires, tickMs after the previous event; an
\* asteroid strikes the players of hits
Tick(r, tickMs, hits) ==
  /\ Budget
  /\ rooms[r] # Null
  /\ rooms[r].tickInterval
  /\ hist.ticks < MaxTicks
  /\ hits \subseteq AlivePlayers(r)
  /\ hist.hits + Cardinality(hits) <= MaxHits
  /\ now' = now + tickMs
  /\ LET world == rooms[r].gameWorld
         events == CollisionEvents(
                     world, {<<"playerAsteroid", c, world.asteroids[1].id>> : c \in hits})
         after == Room_tick(SV, r, now + tickMs, events)
     IN /\ SetSV(after)
        /\ hist' = [hist EXCEPT
              !.ticks = @ + 1,
              !.hits = @ + Cardinality(hits),
              !.applied = [c \in Conns |-> @[c] \o Field(TraceOf(after.trace, "input", c), "uid")],
              !.acksSent = [c \in Conns |->
                              @[c] \o Field(TraceOf(after.trace, "ack", c), "sequence")]]
        /\ lastOp' = [op |-> "tick", room |-> r, wasActive |-> rooms[r].isActive,
                      trace |-> after.trace]
  /\ UNCHANGED clientVars

\* the snapshot interval of room r fires
Snapshot(r) ==
  /\ Budget
  /\ rooms[r] # Null
  /\ rooms[r].snapshotInterval
  /\ hist.snapshots < MaxSnapshots
  /\ SetSV(Room_broadcastSnapshot(SV, r))
  /\ hist' = [hist EXCEPT !.snapshots = @ + 1]
  /\ lastOp' = [op |-> "snapshot", room |-> r, wasActive |-> rooms[r].isActive]
  /\ UNCHANGED <<now, clientVars>>

\* a respawn timeout set by processCollisions fires
RespawnFire(i, spawnPosition) ==
  /\ Budget
  /\ i \in DOMAIN timers
  /\ now >= timers[i].fireAt
  /\ timers' = SubSeq(timers, 1, i - 1) \o SubSeq(timers, i + 1, Len(timers))
  /\ rooms' = [rooms EXCEPT ![timers[i].room].gameWorld =
                 GameWorld_respawnPlayerSafely(@, timers[i].playerId,
                                               timers[i].currentTime, spawnPosition)]
  /\ lastOp' = [op |-> "respawn", room |-> timers[i].room, timer |-> timers[i],
                before |-> rooms[timers[i].room].gameWorld]
  /\ UNCHANGED <<now, conn, roomCodes, s2c, clientVars, hist>>

\* RoomManager.cleanupEmptyRooms, every 30 s
RECURSIVE RemoveRooms(_, _)
RemoveRooms(sv, ids) ==
  IF ids = {} THEN sv
  ELSE LET r == CHOOSE x \in ids : \A y \in ids : x <= y
       IN RemoveRooms(RoomManager_removeRoom(sv, r), ids \ {r})
RoomManager_cleanupEmptyRooms(sv, dateNow) ==
  RemoveRooms(sv, {r \in Registered(sv) :
                     Len(sv.rooms[r].clients) = 0
                     /\ dateNow - sv.rooms[r].createdAt > 5 * 60 * 1000})
CleanupEmptyRooms ==
  /\ Budget
  /\ \E r \in Registered(SV) : Len(rooms[r].clients) = 0
  /\ SetSV(RoomManager_cleanupEmptyRooms(SV, now))
  /\ lastOp' = [op |-> "cleanup"]
  /\ UNCHANGED <<now, clientVars, hist>>

\* time passes with no event: a stall of the server, or a long idle period
\* while no room is active
ClockAdvance ==
  /\ Budget
  /\ hist.clockSteps < MaxClockSteps
  /\ now' = now + ClockStepMs
  /\ hist' = [hist EXCEPT !.clockSteps = @ + 1]
  /\ lastOp' = [op |-> "clock"]
  /\ UNCHANGED <<serverVars, clientVars>>
Idle ==
  /\ Budget
  /\ hist.idleSteps < MaxIdleSteps
  /\ \A r \in RoomIds : rooms[r] # Null => ~rooms[r].isActive
  /\ now' = now + IdleStepMs
  /\ hist' = [hist EXCEPT !.idleSteps = @ + 1]
  /\ lastOp' = [op |-> "idle"]
  /\ UNCHANGED <<serverVars, clientVars>>

Next ==
  \/ \E name \in GameNames, p \in SpawnPositions : GameJoin(name, p)
  \/ \E in \in GameInputs : GameInput(in)
  \/ GameReceive
  \/ GameLeave
  \/ GameUpdate
  \/ \E c \in Conns : PeerConnect(c)
  \/ \E c \in Conns, name \in PeerNames, code \in JoinCodes, p \in SpawnPositions :
        PeerJoin(c, name, code, p)
  \/ \E c \in Conns, k \in 1..MaxSeq, in \in PeerInputs : PeerInput(c, k, in)
  \/ \E c \in Conns : PeerLeave(c)
  \/ \E c \in Conns : PeerClose(c)
  \/ \E r \in RoomIds, d \in MinTickMs..MaxTickMs, hits \in SUBSET Conns : Tick(r, d, hits)
  \/ \E r \in RoomIds : Snapshot(r)
  \/ \E i \in 1..(MaxHits + 1), p \in SpawnPositions : RespawnFire(i, p)
  \/ CleanupEmptyRooms
  \/ ClockAdvance
  \/ Idle

Spec == Init /\ [][Next]_vars

\* ------------------------------------------------------------------------
\* ClientPrediction driven through its public methods
\* ------------------------------------------------------------------------
\* player states a snapshot may carry
MovingPlayer(id, rotation, linear, isAlive) ==
  [createPlayer(id, NameAl, [x |-> 5 * PosUnits, y |-> 2048 * PosUnits])
     EXCEPT !.transform.rotation = rotation, !.velocity.linear = linear,
            !.isAlive = isAlive]
PlayerStates(id) ==
  {MovingPlayer(id, 0, Vec2_zero, TRUE),
   MovingPlayer(id, PiAngle, [x |-> 300 * VelUnits, y |-> 0], TRUE),
   MovingPlayer(id, PiAngle \div 4, [x |-> 0 - 200 * VelUnits, y |-> 90 * VelUnits], TRUE),
   MovingPlayer(id, PiAngle \div 2, [x |-> 0, y |-> 50 * VelUnits], FALSE)}
SnapshotOf(players) ==
  [tick |-> 1, timestamp |-> 0, players |-> players, bullets |-> <<>>]
Snapshots ==
  {SnapshotOf(<<p>>) : p \in PlayerStates(GameClient)}
    \cup {SnapshotOf(<<MovingPlayer(GameClient + 1, 0, Vec2_zero, TRUE)>>)}

PredSetPlayerId(playerId) ==
  /\ PredBudget
  /\ prediction.playerId = NoId
  /\ prediction' = CP_setPlayerId(prediction, playerId)
  /\ lastOp' = [op |-> "setPlayerId"]
  /\ UNCHANGED <<now, serverVars, game, network, hist>>

PredApplyInput(playerId, inputState) ==
  /\ PredBudget
  /\ prediction.sequenceNumber < MaxSeq
  /\ prediction' = CP_applyInput(prediction, playerId, inputState, now)
  /\ lastOp' = [op |-> "applyInput", playerId |-> playerId, input |-> inputState,
                before |-> prediction]
  /\ UNCHANGED <<now, serverVars, game, network, hist>>

PredAcknowledge(sequence) ==
  /\ PredBudget
  /\ prediction' = CP_acknowledgeSequence(prediction, sequence)
  /\ hist' = [hist EXCEPT !.acked = @ \cup {sequence}]
  /\ lastOp' = [op |-> "acknowledge", sequence |-> sequence, before |-> prediction]
  /\ UNCHANGED <<now, serverVars, game, network>>

PredReconcile(snapshot) ==
  /\ PredBudget
  /\ prediction' = CP_reconcile(prediction, snapshot)
  /\ lastOp' = [op |-> "reconcile", snapshot |-> snapshot, before |-> prediction]
  /\ UNCHANGED <<now, serverVars, game, network, hist>>

PredUpdate ==
  /\ PredBudget
  /\ prediction' = CP_update(prediction, now)
  /\ lastOp' = [op |-> "update"]
  /\ UNCHANGED <<now, serverVars, game, network, hist>>

NextPrediction ==
  \/ PredSetPlayerId(GameClient)
  \/ \E in \in GameInputs : PredApplyInput(GameClient, in)
  \/ \E k \in 0..(MaxSeq + 1) : PredAcknowledge(k)
  \/ \E snapshot \in Snapshots : PredReconcile(snapshot)
  \/ PredUpdate
  \/ ClockAdvance

SpecPrediction == Init /\ [][NextPrediction]_vars

\* ------------------------------------------------------------------------
\* A GameWorld driven through the methods Room calls on it
\* ------------------------------------------------------------------------
\* The world of room WorldRoom holds player 1, fresh or in a state play has
\* left it in (two lives lost and three bullet hits taken, or one life lost
\* and just respawned), and a second, fresh player.  hist.deaths counts the
\* deaths of the Player object held under an id and hist.credited the points
\* of the asteroids its bullets struck; hist.stale holds the respawn
\* timeouts, as <<playerId, fireAt>>, whose player has been removed since
\* they were set.
WorldRoom == 1
WorldPlayers(id) ==
  LET fresh == createPlayer(id, NameAl, [x |-> 1024 * PosUnits, y |-> 1024 * PosUnits])
  IN {fresh,
      [fresh EXCEPT !.health = 25, !.lives = 1, !.invulnerableUntil = WorldStartMs],
      [fresh EXCEPT !.lives = 2,
                    !.invulnerableUntil = WorldStartMs + INVULNERABILITY_TIME]}
WorldInputs == {Input(FALSE, 0, FALSE, TRUE)}

InitWorld ==
  /\ now = WorldStartMs
  /\ conn = [c \in Conns |-> NewConnection]
  /\ \E p1 \in WorldPlayers(1) :
        /\ rooms = [r \in RoomIds |->
                      IF r = WorldRoom
                      THEN [NewRoom(r, 0) EXCEPT
                              !.gameWorld.players =
                                 <<p1, createPlayer(2, NameBo, Vec2_zero)>>]
                      ELSE Null]
        /\ hist = [NewHist EXCEPT !.deaths[1] = MAX_LIVES - p1.lives]
  /\ roomCodes = {}
  /\ timers = <<>>
  /\ s2c = [c \in Conns |-> <<>>]
  /\ game = [playerId |-> NoId, roomId |-> NoRoom, isRunning |-> FALSE]
  /\ network = [socket |-> "none", inputSequence |-> 0]
  /\ prediction = NewPrediction
  /\ lastOp = [op |-> "init"]
  /\ steps = 0

WorldBudget == steps < MaxWorldSteps /\ steps' = steps + 1

\* GameWorld.addPlayer, as Room.addClient calls it
WorldAddPlayer(c, name, spawnPosition) ==
  /\ WorldBudget
  /\ hist.joins < MaxRejoins
  /\ ~MapHas(rooms[WorldRoom].gameWorld.players, c)
  /\ rooms' = [rooms EXCEPT ![WorldRoom].gameWorld.players =
                 MapSet(@, c, createPlayer(c, name, spawnPosition))]
  /\ hist' = [hist EXCEPT !.joins = @ + 1, !.deaths[c] = 0, !.credited[c] = 0]
  /\ lastOp' = [op |-> "addPlayer", client |-> c]
  /\ UNCHANGED <<now, conn, roomCodes, timers, s2c, clientVars>>

\* GameWorld.removePlayer, as Room.removeClient calls it
WorldRemovePlayer(c) ==
  /\ WorldBudget
  /\ MapHas(rooms[WorldRoom].gameWorld.players, c)
  /\ rooms' = [rooms EXCEPT ![WorldRoom].gameWorld.players = MapDelete(@, c)]
  /\ hist' = [hist EXCEPT !.stale =
                @ \cup {<<timers[i].playerId, timers[i].fireAt>> :
                          i \in {j \in DOMAIN timers : timers[j].playerId = c}}]
  /\ lastOp' = [op |-> "removePlayer", client |-> c]
  /\ UNCHANGED <<now, conn, roomCodes, timers, s2c, clientVars>>

\* GameWorld.processInput and updatePlayerMovement, as Room.processClientInput
\* calls them for an input of client c with timestamp now
WorldInput(c, inputState) ==
  /\ WorldBudget
  /\ hist.peerInputs < MaxSeq
  /\ MapHas(rooms[WorldRoom].gameWorld.players, c)
  /\ MapGet(rooms[WorldRoom].gameWorld.players, c).isAlive
  /\ rooms' = [rooms EXCEPT ![WorldRoom].gameWorld =
                 GameWorld_updatePlayerMovement(
                   GameWorld_processInput(@, c, inputState, now),
                   c, inputState, MinTickMs * UnitsPerMs)]
  /\ hist' = [hist EXCEPT !.peerInputs = @ + 1]
  /\ lastOp' = [op |-> "worldInput", client |-> c, input |-> inputState]
  /\ UNCHANGED <<now, conn, roomCodes, timers, s2c, clientVars>>

\* the sets of at most k elements of U
RECURSIVE SubsetsUpTo(_, _)
SubsetsUpTo(U, k) ==
  IF k = 0 THEN {{}}
  ELSE LET smaller == SubsetsUpTo(U, k - 1)
       IN smaller \cup {S \cup {e} : S \in smaller, e \in U}

\* the points of the asteroids that bullets of player c struck, by the
\* scoring table of the game: large 20, medium 50, small 100
RECURSIVE PointsFor(_, _, _, _)
PointsFor(c, world, shot, i) ==
  IF i > Len(shot) THEN 0
  ELSE (IF MapGet(world.bullets, shot[i].bulletId).playerId = c
        THEN [large |-> 20, medium |-> 50, small |-> 100]
               [MapGet(world.asteroids, shot[i].asteroidId).size]
        ELSE 0) + PointsFor(c, world, shot, i + 1)

\* the players that were alive in world before and are not alive in after
Died(before, after) ==
  {c \in Conns : /\ MapHas(before.players, c) /\ MapGet(before.players, c).isAlive
                  /\ MapHas(after.players, c) /\ ~MapGet(after.players, c).isAlive}

\* GameWorld.update, tickMs after the previous event; the collision system
\* finds at most MaxEvents overlapping pairs, those with an asteroid being
\* with the first asteroid of the world (the asteroids are all alike)
WorldUpdate(tickMs) ==
  /\ WorldBudget
  /\ hist.ticks < MaxTicks
  /\ LET world == rooms[WorldRoom].gameWorld
         deltaTime == tickMs * UnitsPerMs
         moved == GameWorld_updateBullets(world, deltaTime)
         struck == moved.asteroids[1].id
     IN \E found \in SubsetsUpTo({e \in Overlaps(moved) : e[3] = struck
                                                             \/ e[1] = "playerBullet"},
                                  MaxEvents) :
          LET events == CollisionEvents(moved, found)
              after == GameWorld_update(SV, WorldRoom, deltaTime, now + tickMs, events)
          IN /\ SetSV(after)
             /\ hist' = [hist EXCEPT
                   !.ticks = @ + 1,
                   !.deaths = [c \in Conns |->
                                 IF c \in Died(world, after.rooms[WorldRoom].gameWorld)
                                 THEN @[c] + 1 ELSE @[c]],
                   !.credited = [c \in Conns |->
                                   @[c] + PointsFor(c, moved, events.bulletAsteroidCollisions,
                                                    1)]]
             /\ lastOp' = [op |-> "worldUpdate", before |-> world, timers |-> timers,
                           tickMs |-> tickMs, events |-> events,
                           destroyedPlayers |->
                             resolveCollisions(events, moved.players, moved.asteroids,
                                               moved.bullets, now + tickMs).destroyedPlayers]
  /\ now' = now + tickMs
  /\ UNCHANGED clientVars

NextWorld ==
  \/ \E c \in Conns, name \in GameNames, p \in SpawnPositions : WorldAddPlayer(c, name, p)
  \/ \E c \in Conns : WorldRemovePlayer(c)
  \/ \E c \in Conns, in \in WorldInputs : WorldInput(c, in)
  \/ \E d \in MinTickMs..MaxTickMs : WorldUpdate(d)
  \/ \E i \in 1..MaxSteps, p \in SpawnPositions : RespawnFire(i, p)
  \/ ClockAdvance

SpecWorld == InitWorld /\ [][NextWorld]_vars

\* ------------------------------------------------------------------------
\* A GameWorld with a bullet at the end of its life
\* ------------------------------------------------------------------------
\* Player 1 fired a bullet that has one tick, a ms less, a ms more, or its
\* whole lifetime left.
ExpiryLifetimes == {MinTickMs - 1, MinTickMs, MinTickMs + 1, BULLET_LIFETIME}
InitExpiry ==
  /\ now = WorldStartMs
  /\ conn = [c \in Conns |-> NewConnection]
  /\ \E left \in ExpiryLifetimes :
        rooms = [r \in RoomIds |->
                   IF r = WorldRoom
                   THEN [NewRoom(r, 0) EXCEPT
                           !.gameWorld.players =
                              <<[createPlayer(1, NameAl, Vec2_zero)
                                   EXCEPT !.lastShotTime = WorldStartMs - (BULLET_LIFETIME - left)],
                                createPlayer(2, NameBo, Vec2_zero)>>,
                           !.gameWorld.bullets =
                              <<[createBullet(asteroidCount + 1, 1, Vec2_zero,
                                              [x |-> Q, y |-> 0],
                                              WorldStartMs - (BULLET_LIFETIME - left))
                                   EXCEPT !.lifetime = left]>>,
                           !.gameWorld.idCounter = asteroidCount + 1]
                   ELSE Null]
  /\ roomCodes = {}
  /\ timers = <<>>
  /\ s2c = [c \in Conns |-> <<>>]
  /\ game = [playerId |-> NoId, roomId |-> NoRoom, isRunning |-> FALSE]
  /\ network = [socket |-> "none", inputSequence |-> 0]
  /\ prediction = NewPrediction
  /\ lastOp = [op |-> "init"]
  /\ hist = NewHist
  /\ steps = 0

SpecExpiry == InitExpiry /\ [][NextWorld]_vars

\* ------------------------------------------------------------------------
\* A GameWorld whose asteroids have been shot down to the minimum
\* ------------------------------------------------------------------------
\* Player 1 has fired asteroidCount - minAsteroids times, FIRE_RATE apart,
\* and every bullet struck the first asteroid of the world in the update
\* that followed the shot.
RECURSIVE ShootDown(_, _, _)
ShootDown(sv, k, last) ==
  IF k > last \/ ~MapHas(sv.rooms[WorldRoom].gameWorld.players, 1) THEN sv
  ELSE LET t == WorldStartMs + (k - 1) * FIRE_RATE
           deltaTime == MinTickMs * UnitsPerMs
           shot == GameWorld_processInput(sv.rooms[WorldRoom].gameWorld, 1,
                                          Input(FALSE, 0, FALSE, TRUE), t)
           moved == GameWorld_updateBullets(shot, deltaTime)
           events == CollisionEvents(
                       moved, {<<"bulletAsteroid", shot.bullets[Len(shot.bullets)].id,
                                 moved.asteroids[1].id>>})
       IN ShootDown(GameWorld_update([sv EXCEPT !.rooms[WorldRoom].gameWorld = shot],
                                     WorldRoom, deltaTime, t + MinTickMs, events),
                    k + 1, last)

InitAsteroids ==
  LET shots == asteroidCount - minAsteroids
      sv0 == [conn |-> [c \in Conns |-> NewConnection],
              rooms |-> [r \in RoomIds |->
                           IF r = WorldRoom
                           THEN [NewRoom(r, 0) EXCEPT
                                   !.gameWorld.players =
                                      <<createPlayer(1, NameAl, [x |-> 1024 * PosUnits,
                                                                 y |-> 1024 * PosUnits]),
                                        createPlayer(2, NameBo, Vec2_zero)>>]
                           ELSE Null],
              roomCodes |-> {}, timers |-> <<>>,
              s2c |-> [c \in Conns |-> <<>>], trace |-> <<>>]
      sv1 == ShootDown(sv0, 1, shots)
  IN /\ now = WorldStartMs + (shots - 1) * FIRE_RATE + MinTickMs
     /\ conn = sv1.conn
     /\ rooms = sv1.rooms
     /\ roomCodes = {}
     /\ timers = sv1.timers
     /\ s2c = [c \in Conns |-> <<>>]
     /\ game = [playerId |-> NoId, roomId |-> NoRoom, isRunning |-> FALSE]
     /\ network = [socket |-> "none", inputSequence |-> 0]
     /\ prediction = NewPrediction
     /\ lastOp = [op |-> "init"]
     /\ hist = [NewHist EXCEPT
                  !.credited[1] = MapGet(sv1.rooms[WorldRoom].gameWorld.players, 1).score]
     /\ steps = 0

SpecAsteroids == InitAsteroids /\ [][NextWorld]_vars

\* ------------------------------------------------------------------------
\* splitAsteroid applied along split chains
\* ------------------------------------------------------------------------
\* values Math.random() returns, as fractions of Q
Randoms == {0, 500, 999}
SplitRandoms == [angle : Randoms, speed : Randoms]
SplitParents ==
  {createAsteroid(1, position, [x |-> 30 * VelUnits, y |-> 0], size) :
     position \in {[x |-> 2048 * PosUnits, y |-> 2048 * PosUnits],
                   [x |-> 4090 * PosUnits, y |-> 5 * PosUnits]},
     size \in AsteroidSizes}

\* an asteroid of any size, at the centre of the world or near its corner
InitSplit ==
  /\ now = 0
  /\ conn = [c \in Conns |-> NewConnection]
  /\ rooms = [r \in RoomIds |-> Null]
  /\ roomCodes = {}
  /\ timers = <<>>
  /\ s2c = [c \in Conns |-> <<>>]
  /\ game = [playerId |-> NoId, roomId |-> NoRoom, isRunning |-> FALSE]
  /\ network = [socket |-> "none", inputSequence |-> 0]
  /\ prediction = NewPrediction
  /\ \E asteroid \in SplitParents :
        lastOp = [op |-> "asteroid", chain |-> 0, asteroid |-> Null, result |-> <<asteroid>>]
  /\ hist = NewHist
  /\ steps = 0

\* splitAsteroid is applied to asteroid k of the last result
Split(k, randoms) ==
  /\ k \in DOMAIN lastOp.result
  /\ LET asteroid == lastOp.result[k]
     IN lastOp' = [op |-> "splitAsteroid", chain |-> lastOp.chain + 1,
                   asteroid |-> asteroid,
                   result |-> splitAsteroid(asteroid, randoms,
                                            <<2 * asteroid.id, 2 * asteroid.id + 1>>)]
  /\ UNCHANGED <<now, serverVars, clientVars, hist, steps>>

NextSplit == \E k \in 1..2, randoms \in [1..2 -> SplitRandoms] : Split(k, randoms)

SpecSplit == InitSplit /\ [][NextSplit]_vars

\* ------------------------------------------------------------------------
\* A busy server: a room one short of full, a registry one short of full
\* ------------------------------------------------------------------------
\* Connections 1..MAX_PLAYERS_PER_ROOM - 1 have joined by quickplay and are in
\* room 1.  The last connection has then sent joins with an invalid name and
\* the room codes LobbyCode(2), LobbyCode(3), ...: each created a room that
\* stayed empty and registered, until the registry held maxRooms - 1 rooms.
LobbyConns == 1..(MAX_PLAYERS_PER_ROOM + 1)
LobbyRooms == 1..(maxRooms + MaxLobbySteps + 1)
LobbyMembers == 1..(MAX_PLAYERS_PER_ROOM - 1)
LobbyJoiners == LobbyConns \ LobbyMembers
LobbyLeavers == {c \in LobbyConns : c + 1 \in LobbyJoiners}
LobbyName(c) == <<"p", ToString(c)>>
LobbyCode(k) == "C" \o ToString(k)
LobbyCodes == {NoCode, CodeOf(1), "NEW", "NEW2"}
LobbySpawn == [x |-> 2048 * PosUnits, y |-> 2048 * PosUnits]

RECURSIVE ConnectAll(_, _)
ConnectAll(sv, c) ==
  IF c \notin DOMAIN sv.conn THEN sv ELSE ConnectAll(handleConnection(sv, c), c + 1)
RECURSIVE JoinAll(_, _, _)
JoinAll(sv, c, last) ==
  IF c > last THEN sv
  ELSE JoinAll(handleJoin(sv, c, [name |-> LobbyName(c), roomId |-> NoCode], LobbySpawn, 0),
               c + 1, last)
RECURSIVE OpenRooms(_, _, _)
OpenRooms(sv, c, k) ==
  IF Cardinality(Registered(sv)) >= maxRooms - 1 THEN sv
  ELSE OpenRooms(handleJoin(sv, c, [name |-> NameBad, roomId |-> LobbyCode(k)], LobbySpawn, 0),
                 c, k + 1)

InitLobby ==
  LET sv0 == [conn |-> [c \in LobbyConns |-> NewConnection],
              rooms |-> [r \in LobbyRooms |-> Null], roomCodes |-> {}, timers |-> <<>>,
              s2c |-> [c \in LobbyConns |-> <<>>], trace |-> <<>>]
      sv1 == JoinAll(ConnectAll(sv0, 1), 1, MAX_PLAYERS_PER_ROOM - 1)
      sv2 == OpenRooms(sv1, MAX_PLAYERS_PER_ROOM + 1, 2)
  IN /\ now = 0
     /\ conn = sv2.conn
     /\ rooms = sv2.rooms
     /\ roomCodes = sv2.roomCodes
     /\ timers = <<>>
     /\ s2c = [c \in LobbyConns |-> <<>>]
     /\ game = [playerId |-> NoId, roomId |-> NoRoom, isRunning |-> FALSE]
     /\ network = [socket |-> "none", inputSequence |-> 0]
     /\ prediction = NewPrediction
     /\ lastOp = [op |-> "init"]
     /\ hist = NewHist
     /\ steps = 0

LobbyBudget == steps < MaxLobbySteps /\ steps' = steps + 1

LobbyJoin(c, name, roomCode) ==
  /\ LobbyBudget
  /\ conn[c].status = "open"
  /\ SetSV(handleJoin(SV, c, [name |-> name, roomId |-> roomCode], LobbySpawn, now))
  /\ lastOp' = [op |-> "join", client |-> c, name |-> name, roomCode |-> roomCode,
                ok |-> JoinRoomOk(SV, c, name, roomCode)]
  /\ UNCHANGED <<now, clientVars, hist>>

LobbyLeave(c) ==
  /\ LobbyBudget
  /\ conn[c].status = "open"
  /\ conn[c].roomId # NoRoom
  /\ SetSV(handleLeave(SV, c))
  /\ lastOp' = [op |-> "leave", client |-> c]
  /\ UNCHANGED <<now, clientVars, hist>>

LobbyClose(c) ==
  /\ LobbyBudget
  /\ conn[c].status = "open"
  /\ SetSV(handleDisconnection(SV, c))
  /\ lastOp' = [op |-> "close", client |-> c]
  /\ UNCHANGED <<now, clientVars, hist>>

NextLobby ==
  \/ \E c \in LobbyJoiners, code \in LobbyCodes : LobbyJoin(c, LobbyName(c), code)
  \/ \E c \in LobbyJoiners, code \in {NoCode, "NEW2"} : LobbyJoin(c, NameBad, code)
  \/ \E c \in LobbyJoiners \cup LobbyLeavers : LobbyLeave(c)
  \/ \E c \in LobbyJoiners : LobbyClose(c)

SpecLobby == InitLobby /\ [][NextLobby]_vars

\* ------------------------------------------------------------------------
\* A client whose input buffer is one record short of full
\* ------------------------------------------------------------------------
\* Connection 2 is alone in a room and has sent InputBufferLimit - 1 inputs.
\* Either its player is alive and the tick timer has fired before the last
\* of them arrived, or an asteroid destroyed the player in the first tick,
\* before any input arrived: the inputs of a dead player stay unprocessed.
\* The join and the tick are the two events so far.
RECURSIVE ReceiveInputs(_, _, _, _, _)
ReceiveInputs(sv, c, first, last, timestamp) ==
  IF first > last \/ sv.conn[c].status # "open" THEN sv
  ELSE IF first = last
  THEN handleInput(sv, c, [sequence |-> first, timestamp |-> timestamp,
                           input |-> Input(TRUE, 1, FALSE, FALSE)], first)
  ELSE LET mid == (first + last) \div 2
       IN ReceiveInputs(ReceiveInputs(sv, c, first, mid, timestamp),
                        c, mid + 1, last, timestamp)

InitBuffer ==
  \E dead \in BOOLEAN, p \in SpawnPositions :
    LET c == 2
        early == IF dead THEN 0 ELSE InputBufferLimit - 2
        sv0 == [conn |-> [d \in Conns |-> NewConnection],
                rooms |-> [r \in RoomIds |-> Null], roomCodes |-> {}, timers |-> <<>>,
                s2c |-> [d \in Conns |-> <<>>], trace |-> <<>>]
        sv1 == handleJoin(handleConnection(sv0, c), c,
                          [name |-> NameBo, roomId |-> NoCode], p, 0)
        r == sv1.conn[c].roomId
        sv2 == ReceiveInputs(sv1, c, 1, early, 0)
        world == sv2.rooms[r].gameWorld
        sv3 == Room_tick(sv2, r, MinTickMs,
                         CollisionEvents(world, IF dead
                                                THEN {<<"playerAsteroid", c, world.asteroids[1].id>>}
                                                ELSE {}))
        sv4 == ReceiveInputs(sv3, c, early + 1, InputBufferLimit - 1, MinTickMs)
    IN /\ now = MinTickMs
       /\ conn = sv4.conn
       /\ rooms = sv4.rooms
       /\ roomCodes = sv4.roomCodes
       /\ timers = sv4.timers
       /\ s2c = [d \in Conns |-> <<>>]
       /\ game = [playerId |-> NoId, roomId |-> NoRoom, isRunning |-> FALSE]
       /\ network = [socket |-> "none", inputSequence |-> 0]
       /\ prediction = NewPrediction
       /\ lastOp = [op |-> "init"]
       /\ hist = [NewHist EXCEPT !.uid = InputBufferLimit - 1,
                                 !.received[c] = 1..(InputBufferLimit - 1),
                                 !.whileDead = IF dead THEN 1..(InputBufferLimit - 1)
                                                       ELSE {}]
       /\ steps = 2

NextBuffer ==
  \/ \E c \in Conns, k \in 1..MaxSeq, in \in PeerInputs : PeerInput(c, k, in)
  \/ \E r \in RoomIds, d \in MinTickMs..MaxTickMs, hits \in SUBSET Conns : Tick(r, d, hits)
  \/ \E i \in 1..(MaxHits + 1), p \in SpawnPositions : RespawnFire(i, p)
  \/ ClockAdvance

SpecBuffer == InitBuffer /\ [][NextBuffer]_vars

\* ------------------------------------------------------------------------
\* Server and client applying the same inputs to the same player state
\* ------------------------------------------------------------------------
\* the game client is alone in a room; its player is in state S; both sides
\* have buffered the same inputs, none acknowledged, none processed; a
\* snapshot carrying S is on its way to the client
InputSeqs == UNION {[1..n -> GameInputs] : n \in 0..MaxLen}
RECURSIVE BufferInputs(_, _, _)
BufferInputs(sv, inputs, i) ==
  IF i > Len(inputs) THEN sv
  ELSE BufferInputs(handleInput(sv, GameClient,
                                [sequence |-> i, timestamp |-> 0, input |-> inputs[i]], i),
                    inputs, i + 1)
RECURSIVE PredictInputs(_, _, _)
PredictInputs(cp, inputs, i) ==
  IF i > Len(inputs) THEN cp
  ELSE PredictInputs(CP_applyInput(cp, GameClient, inputs[i], 0), inputs, i + 1)

InitEquiv ==
  \E S \in PlayerStates(GameClient), inputs \in InputSeqs, p \in SpawnPositions :
    LET sv0 == [conn |-> [c \in Conns |-> NewConnection],
                rooms |-> [r \in RoomIds |-> Null], roomCodes |-> {}, timers |-> <<>>,
                s2c |-> [c \in Conns |-> <<>>], trace |-> <<>>]
        sv1 == handleJoin(handleConnection(sv0, GameClient), GameClient,
                          [name |-> NameAl, roomId |-> NoCode], p, 0)
        r == sv1.conn[GameClient].roomId
        sv2 == [sv1 EXCEPT !.rooms[r].gameWorld.players =
                             MapSet(@, GameClient, [S EXCEPT !.isAlive = TRUE]),
                           !.s2c = [c \in Conns |-> <<>>]]
        sv3 == BufferInputs(Room_broadcastSnapshot(sv2, r), inputs, 1)
    IN /\ now = 0
       /\ conn = sv3.conn
       /\ rooms = sv3.rooms
       /\ roomCodes = sv3.roomCodes
       /\ timers = sv3.timers
       /\ s2c = sv3.s2c
       /\ game = [playerId |-> GameClient, roomId |-> r, isRunning |-> TRUE]
       /\ network = [socket |-> "open", inputSequence |-> Len(inputs)]
       /\ prediction = PredictInputs(CP_setPlayerId(NewPrediction, GameClient), inputs, 1)
       /\ lastOp = [op |-> "init"]
       /\ hist = [NewHist EXCEPT !.uid = Len(inputs),
                                 !.received[GameClient] = 1..Len(inputs)]
       /\ steps = 0

NextEquiv ==
  \/ \E r \in RoomIds, d \in MinTickMs..MaxTickMs : Tick(r, d, {})
  \/ GameReceive

SpecEquiv == InitEquiv /\ [][NextEquiv]_vars

\* ------------------------------------------------------------------------
\* Room lifecycle
\* ------------------------------------------------------------------------
\* C2: a room is active, with its tick and snapshot timers set, exactly
\* when its client count (the size of Room.clients) is at least one,
\* whatever joins, rejected joins and leaves came before.
C2_ActiveIffClients ==
  \A r \in RoomIds :
    rooms[r] # Null =>
      /\ rooms[r].isActive <=> Len(rooms[r].clients) >= 1
      /\ rooms[r].tickInterval <=> rooms[r].isActive
      /\ rooms[r].snapshotInterval <=> rooms[r].isActive
\* a room that ran ticks has lost its last client, and a join was rejected
C2_Witness ==
  /\ \E r \in RoomIds :
        /\ rooms[r] # Null
        /\ rooms[r].gameWorld.tick > 0
        /\ Len(rooms[r].clients) = 0
        /\ ~rooms[r].isActive
  /\ \E c \in Conns : \E i \in DOMAIN s2c[c] : s2c[c][i].type = "error"

\* C3: a tick or a snapshot broadcast of a room runs only while the room
\* is active: after deactivation none runs until a join re-activates it.
C3_NoTimerAfterStop ==
  lastOp.op \in {"tick", "snapshot"} =>
    /\ lastOp.wasActive
    /\ Len(rooms[lastOp.room].clients) >= 1
\* a room that ran ticks was deactivated, and time has passed since
C3_Witness ==
  /\ lastOp.op = "clock"
  /\ \E r \in RoomIds :
        /\ rooms[r] # Null
        /\ rooms[r].gameWorld.tick > 0
        /\ ~rooms[r].isActive
        /\ ~rooms[r].registered

\* ------------------------------------------------------------------------
\* Input processing in a tick
\* ------------------------------------------------------------------------
InputEvents(trace, c) == SelectSeq(trace, LAMBDA e : e.ev = "input" /\ e.client = c)
AckEvents(trace, c) == SelectSeq(trace, LAMBDA e : e.ev = "ack" /\ e.client = c)
StrictlyIncreasing(q) == \A i, j \in DOMAIN q : i < j => q[i] < q[j]
NonDecreasing(q) == \A i, j \in DOMAIN q : i < j => q[i] <= q[j]
MaxOf(S) == CHOOSE x \in S : \A y \in S : y <= x

\* C4: over all ticks every input record is applied at most once and the
\* records of one client in the order they were buffered (the uid of a
\* record is its arrival number); within a tick every input is applied
\* before the world is advanced.
C4_InputsOnceInOrder ==
  /\ \A c \in Conns : StrictlyIncreasing(hist.applied[c])
  /\ lastOp.op = "tick" =>
       /\ \E i \in DOMAIN lastOp.trace : lastOp.trace[i].ev = "update"
       /\ \A i, j \in DOMAIN lastOp.trace :
            (lastOp.trace[i].ev = "update" /\ lastOp.trace[j].ev = "input") => j < i
\* a tick applied two buffered inputs of one client
C4_Witness ==
  /\ lastOp.op = "tick"
  /\ \E c \in Conns : Len(InputEvents(lastOp.trace, c)) >= 2

\* the movement a tick applies to a player: one integration step per
\* applied input, each over deltaTime
RECURSIVE FoldMovement(_, _, _, _)
FoldMovement(player, events, deltaTime, i) ==
  IF i > Len(events) THEN player
  ELSE FoldMovement(updatePlayerMovement(player, events[i].input, deltaTime),
                    events, deltaTime, i + 1)

\* C5 (as stated): each input a tick dequeues is integrated over the time
\* between the previously processed input of that client and the record's
\* own timestamp.
C5_DeltaFromTimestamps ==
  lastOp.op = "tick" =>
    \A c \in Conns :
      LET events == InputEvents(lastOp.trace, c)
      IN \A i \in DOMAIN events :
           i > 1 => events[i].deltaTime =
                      (events[i].timestamp - events[i - 1].timestamp) * UnitsPerMs

\* ------------------------------------------------------------------------
\* Acknowledgments
\* ------------------------------------------------------------------------
\* C7 (as stated): once the game client has received ack{k}, its
\* last-acknowledged sequence is at least k, and a reconcile replays only
\* the buffered inputs with a sequence above every k received.
C7_AckReachesPrediction ==
  (lastOp.op = "receive" /\ lastOp.client = GameClient) =>
    /\ lastOp.message.type = "ack" =>
         prediction.lastAcknowledgedSequence >= lastOp.message.data.sequence
    /\ (/\ lastOp.message.type = "snapshot"
        /\ hist.acked # {}
        /\ FindPlayer(lastOp.message.data.players, prediction.playerId) # Null) =>
         LET serverPlayer == FindPlayer(lastOp.message.data.players, prediction.playerId)
         IN prediction.predictedState =
              ReapplyInputs([id |-> serverPlayer.id, transform |-> serverPlayer.transform,
                             velocity |-> serverPlayer.velocity,
                             isAlive |-> serverPlayer.isAlive],
                            SelectSeq(prediction.inputBuffer,
                                      LAMBDA in : in.sequence > MaxOf(hist.acked)), 1)

\* C8: a tick sends an ack to every connected member whose acknowledged
\* sequence is above the last ack sent to it; every ack carries the highest
\* sequence received from that client; the acks sent to a client never
\* decrease.
C8_AckCarriesHighest ==
  /\ \A c \in Conns : NonDecreasing(hist.acksSent[c])
  /\ lastOp.op = "tick" =>
       \A c \in SeqToSet(rooms[lastOp.room].clients) :
         LET acks == AckEvents(lastOp.trace, c)
             sentBefore == SubSeq(hist.acksSent[c], 1, Len(hist.acksSent[c]) - Len(acks))
             previous == IF sentBefore = <<>> THEN 0 ELSE sentBefore[Len(sentBefore)]
         IN /\ (conn[c].status = "open" /\ conn[c].acknowledged > previous) => acks # <<>>
            /\ \A i \in DOMAIN acks :
                 /\ hist.received[c] # {}
                 /\ acks[i].sequence = MaxOf(hist.received[c])
\* a client whose inputs arrived with sequences 2 and then 1 was sent an ack
C8_Witness ==
  /\ lastOp.op = "tick"
  /\ \E c \in Conns :
        /\ AckEvents(lastOp.trace, c) # <<>>
        /\ Len(conn[c].inputBuffer) >= 2
        /\ conn[c].inputBuffer[1].sequence > conn[c].inputBuffer[2].sequence

\* C9 (as stated): when a tick sends ack{k} to a client, no record of that
\* client with sequence <= k is still unprocessed in its buffer.
C9_AckOnlyProcessed ==
  lastOp.op = "tick" =>
    \A i \in DOMAIN lastOp.trace :
      lastOp.trace[i].ev = "ack" =>
        \A j \in DOMAIN conn[lastOp.trace[i].client].inputBuffer :
          LET entry == conn[lastOp.trace[i].client].inputBuffer[j]
          IN entry.sequence <= lastOp.trace[i].sequence => entry.processed

\* ------------------------------------------------------------------------
\* Reconciliation
\* ------------------------------------------------------------------------
Close(a, b) == a - b \in (0 - 2)..2
CloseVec(a, b) == Close(a.x, b.x) /\ Close(a.y, b.y)

\* C1 (as stated): when the server has applied the buffered inputs to S in
\* a tick and the client has replayed the same inputs on the snapshot of S,
\* the two transforms and velocities agree (up to rounding).
C1_ReplayEqualsServer ==
  (hist.ticks >= 1 /\ prediction.predictedState # Null) =>
    LET server == MapGet(rooms[game.roomId].gameWorld.players, GameClient)
        client == prediction.predictedState
    IN /\ Close(client.transform.rotation, server.transform.rotation)
       /\ CloseVec(client.transform.position, server.transform.position)
       /\ CloseVec(client.velocity.linear, server.velocity.linear)

\* C6: after any calls of acknowledgeSequence the last-acknowledged
\* sequence is the maximum of 0 and the values acknowledged; a call with a
\* value not above it changes nothing.
C6_AckMonotone ==
  /\ prediction.lastAcknowledgedSequence = MaxOf(hist.acked \cup {0})
  /\ lastOp.op = "acknowledge" =>
       /\ prediction.lastAcknowledgedSequence >= lastOp.before.lastAcknowledgedSequence
       /\ lastOp.sequence <= lastOp.before.lastAcknowledgedSequence =>
            prediction = lastOp.before
\* an acknowledgment arrived that is older than one already made
C6_Witness ==
  /\ lastOp.op = "acknowledge"
  /\ lastOp.sequence < lastOp.before.lastAcknowledgedSequence
  /\ lastOp.sequence > 0

\* C10: reconcile with a snapshot holding the local player sets the
\* predicted state to the snapshot's transform, velocity and aliveness and
\* then, if the player is alive, applies once each, in buffer order and
\* with the fixed timestep, the buffered inputs whose sequence is above the
\* last-acknowledged one; nothing else of the prediction changes.
C10_Reconcile ==
  (/\ lastOp.op = "reconcile"
   /\ lastOp.before.playerId # NoId
   /\ MapHas(lastOp.snapshot.players, lastOp.before.playerId)) =>
    LET serverPlayer == MapGet(lastOp.snapshot.players, lastOp.before.playerId)
        start == [id |-> serverPlayer.id, transform |-> serverPlayer.transform,
                  velocity |-> serverPlayer.velocity, isAlive |-> serverPlayer.isAlive]
        pending == SelectSeq(lastOp.before.inputBuffer,
                     LAMBDA e : e.sequence > lastOp.before.lastAcknowledgedSequence)
    IN /\ prediction.predictedState =
            IF serverPlayer.isAlive
            THEN FoldMovement(start, pending, FIXED_TIMESTEP, 1)
            ELSE start
       /\ prediction = [lastOp.before EXCEPT !.predictedState = prediction.predictedState]
\* a reconcile started from a moving player and replayed the one input that
\* was not acknowledged
C10_Witness ==
  /\ lastOp.op = "reconcile"
  /\ prediction.predictedState # Null
  /\ prediction.predictedState.isAlive
  /\ prediction.lastAcknowledgedSequence = 1
  /\ Len(prediction.inputBuffer) = 2
  /\ MapHas(lastOp.snapshot.players, prediction.playerId)
  /\ prediction.predictedState.transform #
       MapGet(lastOp.snapshot.players, prediction.playerId).transform
  /\ lastOp.before.predictedState # Null

\* ------------------------------------------------------------------------
\* C11: on a local input change the client increments its sequence, appends
\* the input to its buffer and applies the shared movement function once to
\* its predicted copy of the player, so that the predicted state reflects the
\* input before any further snapshot arrives.
\* ------------------------------------------------------------------------
C11_InputPredictedAtOnce ==
  (lastOp.op = "applyInput" /\ lastOp.before.playerId = lastOp.playerId
     /\ lastOp.playerId # NoId) =>
    /\ prediction.sequenceNumber = lastOp.before.sequenceNumber + 1
    /\ Len(prediction.inputBuffer) = Len(lastOp.before.inputBuffer) + 1
    /\ prediction.inputBuffer[Len(prediction.inputBuffer)].sequence
          = prediction.sequenceNumber
    /\ prediction.inputBuffer[Len(prediction.inputBuffer)].input = lastOp.input
    /\ lastOp.before.predictedState # Null =>
          prediction.predictedState
            = applyInputToState(lastOp.before.predictedState, lastOp.input)

\* ------------------------------------------------------------------------
\* Claims about the Game World: the world of room WorldRoom, the players
\* that an update found and left in it
\* ------------------------------------------------------------------------
World == rooms[WorldRoom].gameWorld
Stayed == {c \in Conns : /\ lastOp.op \in {"worldUpdate", "respawn"}
                          /\ MapHas(lastOp.before.players, c)
                          /\ MapHas(World.players, c)}
Before(c) == MapGet(lastOp.before.players, c)
After(c) == MapGet(World.players, c)
\* the collision events of the last update that involve player c
EventsOn(c) ==
  {e \in SeqToSet(lastOp.events.playerAsteroidCollisions)
          \cup SeqToSet(lastOp.events.playerBulletCollisions) : e.playerId = c}

\* C12: damage gate.  In collision resolution a player whose
\* invulnerableUntil is later than the current time takes no damage, a
\* player that is not alive takes no damage, and the health of a player is
\* never negative.
C12_DamageGate ==
  /\ \A i \in DOMAIN World.players : World.players[i].health >= 0
  /\ lastOp.op = "worldUpdate" =>
        \A c \in Stayed :
          (now < Before(c).invulnerableUntil \/ ~Before(c).isAlive) =>
             /\ After(c).health = Before(c).health
             /\ After(c).lives = Before(c).lives
             /\ After(c).isAlive = Before(c).isAlive
\* an asteroid has struck an invulnerable player
C12_Witness ==
  /\ lastOp.op = "worldUpdate"
  /\ \E c \in Stayed : /\ now < Before(c).invulnerableUntil
                        /\ EventsOn(c) # {}
                        /\ After(c).health = MAX_HEALTH

\* C13: in one resolution pass a player loses at most one life and appears
\* at most once in destroyedPlayers, however many collisions with asteroids
\* and bullets involve it in the tick.
C13_OneDeathPerTick ==
  lastOp.op = "worldUpdate" =>
    \A c \in Stayed :
      /\ After(c).lives >= Before(c).lives - 1
      /\ Cardinality({i \in DOMAIN lastOp.destroyedPlayers :
                        lastOp.destroyedPlayers[i] = c}) <= 1
\* a player was destroyed in a tick in which two collisions involved it
C13_Witness ==
  /\ lastOp.op = "worldUpdate"
  /\ \E c \in Stayed : /\ Cardinality(EventsOn(c)) >= 2
                        /\ c \in SeqToSet(lastOp.destroyedPlayers)
                        /\ After(c).lives = Before(c).lives - 1

\* C14: player invariant.  In every state of a Game World health is in
\* 0..100 and lives in 0..3; health > 0 implies isAlive; health = 0 implies
\* not isAlive; lives is MAX_LIVES minus the number of deaths of the player.
C14_PlayerInvariant ==
  \A i \in DOMAIN World.players :
    LET player == World.players[i]
    IN /\ player.health \in 0..100
       /\ player.lives \in 0..3
       /\ player.health > 0 => player.isAlive
       /\ player.health = 0 => ~player.isAlive
       /\ player.lives = MAX_LIVES - hist.deaths[player.id]
\* a player that died once has been respawned
C14_Witness ==
  /\ lastOp.op = "respawn"
  /\ \E c \in Stayed : /\ ~Before(c).isAlive
                        /\ After(c).isAlive
                        /\ After(c).lives = MAX_LIVES - 1
                        /\ hist.deaths[c] = 1

\* C15: in an update in which a bullet collides with an asteroid, the
\* bullet and the asteroid are removed from the world and the split children
\* of the asteroid are added in the same tick: 2 medium asteroids for a
\* large one, 2 small for a medium one, none for a small one.
AsteroidsOfSize(world, size) == {a \in SeqToSet(world.asteroids) : a.size = size}
StruckOfSize(size) ==
  {a \in AsteroidsOfSize(lastOp.before, size) :
     \E i \in DOMAIN lastOp.events.bulletAsteroidCollisions :
        lastOp.events.bulletAsteroidCollisions[i].asteroidId = a.id}
C15_SplitOnBulletHit ==
  (lastOp.op = "worldUpdate" /\ lastOp.events.bulletAsteroidCollisions # <<>>) =>
    /\ \A i \in DOMAIN lastOp.events.bulletAsteroidCollisions :
         LET e == lastOp.events.bulletAsteroidCollisions[i]
         IN ~MapHas(World.bullets, e.bulletId) /\ ~MapHas(World.asteroids, e.asteroidId)
    /\ Cardinality(AsteroidsOfSize(World, "medium"))
         = Cardinality(AsteroidsOfSize(lastOp.before, "medium"))
             - Cardinality(StruckOfSize("medium")) + 2 * Cardinality(StruckOfSize("large"))
    /\ Cardinality(AsteroidsOfSize(World, "small"))
         = Cardinality(AsteroidsOfSize(lastOp.before, "small"))
             - Cardinality(StruckOfSize("small")) + 2 * Cardinality(StruckOfSize("medium"))

\* C16: the score of a player is never negative and never decreases while
\* the player stays in the world; it changes only when a bullet of that
\* player hits an asteroid, and then by the point value of the asteroid
\* (large 20, medium 50, small 100), credited to the owner of the bullet and
\* to no other player.
C16_Score ==
  /\ \A i \in DOMAIN World.players :
        /\ World.players[i].score >= 0
        /\ World.players[i].score = hist.credited[World.players[i].id]
  /\ \A c \in Stayed : After(c).score >= Before(c).score
\* a bullet of a player has struck an asteroid while another player was there
C16_Witness ==
  /\ lastOp.op = "worldUpdate"
  /\ \E c \in Stayed, d \in Stayed :
        /\ c # d
        /\ After(c).score = Before(c).score + 20
        /\ After(d).score = Before(d).score
        /\ \E i \in DOMAIN lastOp.events.bulletAsteroidCollisions :
              MapGet(lastOp.before.bullets,
                     lastOp.events.bulletAsteroidCollisions[i].bulletId).playerId = c

\* C18: when a player is destroyed in a tick, exactly one respawn is
\* scheduled, 3 s later, if the player has lives left after the death, and
\* none if the death brought its lives to 0; a player with no lives left is
\* never alive again.
NewTimers == SubSeq(timers, Len(lastOp.timers) + 1, Len(timers))
C18_RespawnScheduled ==
  /\ \A i \in DOMAIN World.players : World.players[i].lives = 0 => ~World.players[i].isAlive
  /\ lastOp.op = "worldUpdate" =>
        /\ SubSeq(timers, 1, Len(lastOp.timers)) = lastOp.timers
        /\ \A i \in DOMAIN NewTimers : NewTimers[i].fireAt = now + 3000
        /\ \A c \in Conns :
              Cardinality({i \in DOMAIN NewTimers : NewTimers[i].playerId = c})
                = IF c \in Died(lastOp.before, World) /\ After(c).lives > 0 THEN 1 ELSE 0
\* in one tick a player died with lives left and another lost its last life
C18_Witness ==
  /\ lastOp.op = "worldUpdate"
  /\ \E c \in Died(lastOp.before, World), d \in Died(lastOp.before, World) :
        /\ After(c).lives > 0
        /\ After(d).lives = 0
        /\ Len(NewTimers) = 1

\* C19: if a client disconnects or leaves after its player was destroyed
\* and before the scheduled respawn fires, the respawn callback is a no-op:
\* it changes nothing in the Game World.
C19_StaleRespawnNoOp ==
  (lastOp.op = "respawn" /\ <<lastOp.timer.playerId, lastOp.timer.fireAt>> \in hist.stale)
    => rooms[lastOp.room].gameWorld = lastOp.before

\* C20: if a player is destroyed with lives left and its client does not
\* disconnect, then when the respawn fires, after the fixed delay, the
\* player is alive with health MAX_HEALTH and zero velocity, and its
\* invulnerableUntil is the moment of the respawn plus INVULNERABILITY_TIME.
C20_Respawn ==
  (lastOp.op = "respawn"
     /\ <<lastOp.timer.playerId, lastOp.timer.fireAt>> \notin hist.stale
     /\ lastOp.timer.playerId \in Stayed
     /\ Before(lastOp.timer.playerId).lives > 0) =>
    LET player == After(lastOp.timer.playerId)
    IN /\ now >= lastOp.timer.fireAt
       /\ player.isAlive
       /\ player.health = MAX_HEALTH
       /\ player.velocity = [linear |-> Vec2_zero, angular |-> 0]
       /\ player.invulnerableUntil = now + INVULNERABILITY_TIME

\* C17: split conservation for splitAsteroid.  A large asteroid yields
\* exactly 2 medium asteroids and a medium one exactly 2 small ones, each
\* child with the radius of its size, a speed within the speed range of its
\* size and a position at least parentRadius + childRadius away from the
\* parent; a small asteroid yields none.  Size decreases along a split chain
\* and no chain has more than two splits.
\* The speed is compared to within 5/1000, the accuracy of Cos and Sin.
SizeRank(size) == CASE size = "large" -> 3 [] size = "medium" -> 2 [] OTHER -> 1
C17_SplitConservation ==
  lastOp.op = "splitAsteroid" =>
    LET asteroid == lastOp.asteroid
        children == lastOp.result
    IN /\ asteroid.size = "large" =>
            Len(children) = 2 /\ \A i \in 1..2 : children[i].size = "medium"
       /\ asteroid.size = "medium" =>
            Len(children) = 2 /\ \A i \in 1..2 : children[i].size = "small"
       /\ asteroid.size = "small" => children = <<>>
       /\ \A i \in DOMAIN children :
            LET child == children[i]
                speed == Vec2_length(child.velocity.linear)
                away == Vec2_length(Vec2_multiply(
                          Vec2_subtract(child.transform.position,
                                        asteroid.transform.position), 1, 10)) * 10
            IN /\ child.radius = ASTEROID_CONFIG[child.size].RADIUS
               /\ 1000 * speed >= 995 * ASTEROID_CONFIG[child.size].MIN_SPEED * VelUnits
               /\ 1000 * speed <= 1005 * ASTEROID_CONFIG[child.size].MAX_SPEED * VelUnits
               /\ away >= (asteroid.radius + child.radius) * PosUnits
               /\ SizeRank(child.size) < SizeRank(asteroid.size)
       /\ children # <<>> => lastOp.chain <= 2
\* the second split of a chain that began with a large asteroid
C17_Witness ==
  /\ lastOp.op = "splitAsteroid"
  /\ lastOp.chain = 2
  /\ lastOp.asteroid.size = "medium"
  /\ Len(lastOp.result) = 2

\* ------------------------------------------------------------------------
\* Joining and leaving
\* ------------------------------------------------------------------------
\* the messages the step wrote to the socket of connection c
Sent(c) ==
  IF c = GameClient /\ Len(s2c'[c]) >= Len(s2c[c])
  THEN SubSeq(s2c'[c], Len(s2c[c]) + 1, Len(s2c'[c]))
  ELSE s2c'[c]
OfType(q, type) == SelectSeq(q, LAMBDA m : m.type = type)
Members(r) == SeqToSet(rooms'[r].clients)

\* C21: a successful join sends the joiner exactly one welcome carrying its
\* player id, the room id and the current game state, which holds its own
\* player; every other member of the room is sent exactly one playerJoined
\* notice and the joiner none.
C21_JoinMessages ==
  [][(lastOp'.op = "join" /\ lastOp'.ok) =>
       LET c == lastOp'.client
           r == conn'[c].roomId
       IN /\ r # NoRoom
          /\ Len(OfType(Sent(c), "welcome")) = 1
          /\ LET welcome == OfType(Sent(c), "welcome")[1].data
             IN /\ welcome.playerId = c
                /\ welcome.roomId = r
                /\ welcome.gameState = getGameState(rooms'[r].gameWorld)
                /\ MapHas(welcome.gameState.players, c)
          /\ OfType(Sent(c), "playerJoined") = <<>>
          /\ \A d \in Members(r) \ {c} : Len(OfType(Sent(d), "playerJoined")) = 1]_vars

JoinFailed == lastOp'.op = "join" /\ ~lastOp'.ok
Existing == {r \in DOMAIN rooms : rooms[r] # Null}

\* C22: a join that fails is answered with an error message to the joining
\* client; nobody is sent a welcome or a playerJoined message; the client
\* set and the Game World players of every room, and the state of every
\* other client, are as before.
C22_FailedJoin ==
  [][JoinFailed =>
       LET c == lastOp'.client
       IN /\ OfType(Sent(c), "error") # <<>>
          /\ \A d \in DOMAIN conn :
                /\ OfType(Sent(d), "welcome") = <<>>
                /\ OfType(Sent(d), "playerJoined") = <<>>
                /\ d # c => conn'[d] = conn[d] /\ Sent(d) = <<>>
          /\ \A r \in Existing :
                /\ rooms'[r].clients = rooms[r].clients
                /\ rooms'[r].gameWorld.players = rooms[r].gameWorld.players
          /\ \A r \in DOMAIN rooms \ Existing :
                rooms'[r] # Null =>
                   rooms'[r].clients = <<>> /\ rooms'[r].gameWorld.players = <<>>]_vars
\* a join with an invalid name, aimed at the populated room 1, was turned down
C22_Witness ==
  /\ lastOp.op = "join" /\ ~lastOp.ok
  /\ lastOp.name = NameBad /\ lastOp.roomCode = NoCode
  /\ Len(rooms[1].clients) >= MAX_PLAYERS_PER_ROOM - 1
  /\ \E i \in DOMAIN s2c[lastOp.client] : s2c[lastOp.client][i].type = "error"

RoomWithinLimit(room) ==
  room # Null =>
    /\ Len(room.clients) <= MAX_PLAYERS_PER_ROOM
    /\ Len(room.gameWorld.players) <= Len(room.clients)

\* C23: no room ever has more than MAX_PLAYERS_PER_ROOM clients, the Game
\* World of a room never holds more players than the room has clients, and
\* a join is admitted only into a room that had a free slot.
C23_RoomCapacity ==
  [][/\ \A r \in DOMAIN rooms : RoomWithinLimit(rooms[r]) /\ RoomWithinLimit(rooms'[r])
     /\ (lastOp'.op = "join" /\ lastOp'.ok) =>
           LET r == conn'[lastOp'.client].roomId
           IN r \in Existing => Len(rooms[r].clients) < MAX_PLAYERS_PER_ROOM]_vars
\* room 1 is full and the latest join was admitted into another room
C23_Witness ==
  /\ lastOp.op = "join" /\ lastOp.ok
  /\ Len(rooms[1].clients) = MAX_PLAYERS_PER_ROOM
  /\ conn[lastOp.client].roomId # 1
  /\ lastOp.client \notin SeqToSet(rooms[1].clients)

\* C24: when a client leaves or its socket closes, its player is removed from
\* the Game World of the room it was in and the client from that room's
\* client map; each remaining member is sent one playerLeft notice and the
\* leaver none; a room left empty is removed from the registry together with
\* its room code.
C24_Leave ==
  [][(lastOp'.op \in {"leave", "close"} /\ conn[lastOp'.client].roomId # NoRoom) =>
       LET c == lastOp'.client
           r == conn[c].roomId
           remaining == SeqToSet(rooms[r].clients) \ {c}
       IN /\ ~MapHas(rooms'[r].gameWorld.players, c)
          /\ c \notin SeqToSet(rooms'[r].clients)
          /\ \A d \in remaining : Len(OfType(Sent(d), "playerLeft")) = 1
          /\ OfType(Sent(c), "playerLeft") = <<>>
          /\ remaining = {} =>
                /\ ~rooms'[r].registered
                /\ \A e \in roomCodes' : e.roomId # r]_vars

RegistrySize(rr) == Cardinality({r \in DOMAIN rr : rr[r] # Null /\ rr[r].registered})
NeedsNewRoom == lastOp'.op = "join" /\ FindRoom(SV, lastOp'.roomCode) = NoRoom

\* C25: the registry never holds more than maxRooms rooms; a join that needs
\* a new room while the registry holds maxRooms fails and is answered with
\* one error message; registry, rooms and connections are left as they were
\* and nothing is kept for a later attempt.
C25_RegistryFull ==
  [][/\ RegistrySize(rooms) <= maxRooms /\ RegistrySize(rooms') <= maxRooms
     /\ (NeedsNewRoom /\ RegistrySize(rooms) = maxRooms) =>
           /\ ~lastOp'.ok
           /\ Sent(lastOp'.client) = <<Msg("error", [message |-> "Failed to join room"])>>
           /\ \A d \in DOMAIN conn \ {lastOp'.client} : Sent(d) = <<>>
           /\ rooms' = rooms
           /\ roomCodes' = roomCodes
           /\ conn' = conn
           /\ timers' = timers]_vars
\* a valid join under an unknown room code was turned down at a full registry
C25_Witness ==
  /\ lastOp.op = "join" /\ ~lastOp.ok
  /\ validatePlayerName(lastOp.name) = ""
  /\ lastOp.roomCode # NoCode /\ LookupCode(SV, lastOp.roomCode) = NoRoom
  /\ RegistrySize(rooms) = maxRooms
  /\ \E r \in DOMAIN rooms : rooms[r] # Null /\ Len(rooms[r].clients) >= 2

\* ------------------------------------------------------------------------
\* The input buffer of a connection
\* ------------------------------------------------------------------------
InRoom(c) ==
  /\ conn[c].roomId # NoRoom
  /\ rooms[conn[c].roomId].registered
  /\ c \in SeqToSet(rooms[conn[c].roomId].clients)
  /\ conn[c].player # NoRoom

\* C26: the input buffer of a connection never holds more than
\* InputBufferLimit records, and holds them in the order they arrived; a
\* record arriving at a full buffer displaces the oldest one, processed or
\* not, and is itself kept as the newest.
C26_InputBuffer ==
  [][/\ \A c \in Conns :
          /\ Len(conn[c].inputBuffer) <= InputBufferLimit
          /\ Len(conn'[c].inputBuffer) <= InputBufferLimit
          /\ \A i \in 1..(Len(conn'[c].inputBuffer) - 1) :
                conn'[c].inputBuffer[i].uid < conn'[c].inputBuffer[i + 1].uid
     /\ (lastOp'.op = "input" /\ InRoom(lastOp'.client)) =>
           LET before == conn[lastOp'.client].inputBuffer
               after == conn'[lastOp'.client].inputBuffer
           IN /\ after # <<>>
              /\ after[Len(after)].uid = hist'.uid
              /\ ~after[Len(after)].processed
              /\ SubSeq(after, 1, Len(after) - 1) =
                    IF Len(before) = InputBufferLimit THEN Tail(before) ELSE before]_vars
\* a record has arrived at a full buffer: the buffer is full again, its
\* oldest record is gone
C26_Witness ==
  /\ lastOp.op = "input"
  /\ Len(conn[lastOp.client].inputBuffer) = InputBufferLimit
  /\ conn[lastOp.client].inputBuffer[1].uid > 1
  /\ conn[lastOp.client].inputBuffer[InputBufferLimit].uid = hist.uid

\* ------------------------------------------------------------------------
\* Shooting
\* ------------------------------------------------------------------------
BulletsOf(world, c) == SelectSeq(world.bullets, LAMBDA b : b.playerId = c)

\* C27: a shoot attempt of a living player at time now is permitted exactly
\* when now - lastShotTime >= FIRE_RATE.  A permitted shot adds exactly one
\* bullet, owned by that player, and sets lastShotTime to now; an attempt
\* made less than FIRE_RATE after the player's last shot adds none, so the
\* two attempts yield one bullet.
C27_FireRate ==
  [][lastOp'.op = "worldInput" =>
       LET c == lastOp'.client
           before == rooms[WorldRoom].gameWorld
           after == rooms'[WorldRoom].gameWorld
           player == MapGet(before.players, c)
       IN IF lastOp'.input.shoot /\ now - player.lastShotTime >= FIRE_RATE
          THEN /\ Len(after.bullets) = Len(before.bullets) + 1
               /\ SubSeq(after.bullets, 1, Len(before.bullets)) = before.bullets
               /\ after.bullets[Len(after.bullets)].playerId = c
               /\ after.bullets[Len(after.bullets)].createdAt = now
               /\ \A i \in DOMAIN before.bullets :
                     before.bullets[i].id # after.bullets[Len(after.bullets)].id
               /\ MapGet(after.players, c).lastShotTime = now
          ELSE /\ after.bullets = before.bullets
               /\ MapGet(after.players, c).lastShotTime = player.lastShotTime]_vars
\* a player who shot one tick ago has tried again: still one bullet
C27_Witness ==
  /\ lastOp.op = "worldInput" /\ lastOp.input.shoot
  /\ LET world == rooms[WorldRoom].gameWorld
         player == MapGet(world.players, lastOp.client)
     IN /\ player.isAlive
        /\ player.lastShotTime > 0
        /\ player.lastShotTime < now
        /\ now - player.lastShotTime < FIRE_RATE
        /\ Len(BulletsOf(world, lastOp.client)) = 1

\* the player-bullet events of the last update, with the bullet's owner
BulletEvents ==
  {[playerId |-> e.playerId, owner |-> MapGet(lastOp.before.bullets, e.bulletId).playerId] :
     e \in SeqToSet(lastOp.events.playerBulletCollisions)}

\* C28: no player-bullet collision event pairs a player with a bullet that
\* player fired, and the health, lives and aliveness of a player change in
\* an update only if an asteroid or another player's bullet struck it.
C28_NoSelfDamage ==
  lastOp.op = "worldUpdate" =>
    /\ \A e \in BulletEvents : e.owner # e.playerId
    /\ \A c \in Stayed :
          (\/ After(c).health # Before(c).health
           \/ After(c).lives # Before(c).lives
           \/ After(c).isAlive # Before(c).isAlive) =>
             \/ \E e \in SeqToSet(lastOp.events.playerAsteroidCollisions) : e.playerId = c
             \/ \E e \in BulletEvents : e.playerId = c /\ e.owner # c
\* a player's bullet was in flight during an update in which a bullet struck
\* another player; the shooter's health is as it was
C28_Witness ==
  /\ lastOp.op = "worldUpdate"
  /\ \E c \in Stayed :
        /\ Before(c).isAlive
        /\ BulletsOf(lastOp.before, c) # <<>>
        /\ \E e \in BulletEvents : e.owner = c /\ e.playerId # c
        /\ After(c).health = Before(c).health

\* ------------------------------------------------------------------------
\* The asteroid population
\* ------------------------------------------------------------------------
\* C29: after every update the world holds at least minAsteroids asteroids,
\* the ones spawned to make up the number being large, and it never holds
\* more than maxAsteroids.
C29_AsteroidCount ==
  /\ Len(World.asteroids) <= maxAsteroids
  /\ lastOp.op = "worldUpdate" =>
        /\ Len(World.asteroids) >= minAsteroids
        /\ \A i \in DOMAIN World.asteroids :
              (\A j \in DOMAIN lastOp.before.asteroids :
                  lastOp.before.asteroids[j].id # World.asteroids[i].id) =>
                 World.asteroids[i].size = "large"
\* a bullet destroyed one of minAsteroids asteroids and one was spawned
C29_Witness ==
  /\ lastOp.op = "worldUpdate"
  /\ Len(lastOp.before.asteroids) = minAsteroids
  /\ lastOp.events.bulletAsteroidCollisions # <<>>
  /\ Len(World.asteroids) = minAsteroids
  /\ \E i \in DOMAIN World.asteroids :
        \A j \in DOMAIN lastOp.before.asteroids :
           lastOp.before.asteroids[j].id # World.asteroids[i].id

\* ------------------------------------------------------------------------
\* GameWorld.findSafeSpawnPosition
\* ------------------------------------------------------------------------
maxAttempts == 50
minDistance == 100

\* Vec2.distance in whole px, rounded down.  The thresholds it is compared
\* with are whole numbers of px, so the rounding changes no comparison of a
\* distance between whole-px positions.
Vec2_distance(a, b) == Vec2_length(Vec2_multiply(Vec2_subtract(a, b), 1, PosUnits))

\* the body of one attempt: isSafe for the position drawn
SpawnNearAsteroid(world, position) ==
  \E i \in DOMAIN world.asteroids :
     Vec2_distance(position, world.asteroids[i].transform.position)
        < minDistance + world.asteroids[i].radius
SpawnNearPlayer(world, position) ==
  \E i \in DOMAIN world.players :
     /\ world.players[i].isAlive
     /\ Vec2_distance(position, world.players[i].transform.position) < minDistance
SpawnIsSafe_ignoresPlayers(world, position) == ~SpawnNearAsteroid(world, position)
SpawnIsSafe(world, position) ==
  ~SpawnNearAsteroid(world, position) /\ ~SpawnNearPlayer(world, position)

\* A run of the loop: the first n attempts draw u with randomFloat, the
\* later ones s
SpawnDraw(run, k) == IF k <= run.n THEN run.u ELSE run.s

\* findSafeSpawnPosition, its random draws being those of run: the loop
\* returns the position of the first attempt that is safe
WorldCentre == [x |-> WORLD_WIDTH \div 2, y |-> WORLD_HEIGHT \div 2]
findSafeSpawnPosition(world, run) ==
  LET safe == {attempt \in 0..(maxAttempts - 1) :
                 SpawnIsSafe(world, SpawnDraw(run, attempt + 1))}
  IN IF safe = {}
     THEN WorldCentre
     ELSE SpawnDraw(run, 1 + CHOOSE attempt \in safe : \A other \in safe : attempt <= other)

\* A world whose asteroids have positions.  One asteroid, large or small,
\* sits at SpawnRock and player 1, alive or dead, at SpawnShip.  The first n
\* attempts of a run draw u, one px inside a threshold around either; the
\* later ones draw s: the centre of the world, a position minDistance from
\* it, or one at the threshold around a large asteroid.
MaxSpawnSteps == 2
Px(x, y) == [x |-> x * PosUnits, y |-> y * PosUnits]
SpawnRock == Px(1000, 1000)
SpawnShip == Px(3000, 3000)
SpawnRuns ==
  [n : {0, maxAttempts - 1, maxAttempts},
   u : {Px(1139, 1000), Px(3099, 3000)},
   s : {WorldCentre, Px(2148, 2048), Px(1140, 1000)}]

InitSpawn ==
  /\ now = WorldStartMs
  /\ conn = [c \in Conns |-> NewConnection]
  /\ \E size \in {"large", "small"}, alive \in BOOLEAN :
        rooms = [r \in RoomIds |->
                   IF r = WorldRoom
                   THEN [NewRoom(r, 0) EXCEPT
                           !.gameWorld.asteroids =
                              <<createAsteroid(1, SpawnRock, Vec2_zero, size)>>,
                           !.gameWorld.idCounter = 1,
                           !.gameWorld.players =
                              <<[createPlayer(1, NameAl, SpawnShip)
                                   EXCEPT !.isAlive = alive]>>]
                   ELSE Null]
  /\ roomCodes = {}
  /\ timers = <<>>
  /\ s2c = [c \in Conns |-> <<>>]
  /\ game = [playerId |-> NoId, roomId |-> NoRoom, isRunning |-> FALSE]
  /\ network = [socket |-> "none", inputSequence |-> 0]
  /\ prediction = NewPrediction
  /\ lastOp = [op |-> "init"]
  /\ hist = NewHist
  /\ steps = 0

\* GameWorld.addPlayer: the player is created where findSafeSpawnPosition says
SpawnAddPlayer(name, run) ==
  /\ steps < MaxSpawnSteps
  /\ steps' = steps + 1
  /\ LET world == rooms[WorldRoom].gameWorld
         id == Len(world.players) + 1
         spawnPosition == findSafeSpawnPosition(world, run)
     IN /\ rooms' = [rooms EXCEPT ![WorldRoom].gameWorld.players =
                       MapSet(@, id, createPlayer(id, name, spawnPosition))]
        /\ lastOp' = [op |-> "findSafeSpawnPosition", before |-> world, run |-> run,
                      result |-> spawnPosition]
  /\ UNCHANGED <<now, conn, roomCodes, timers, s2c, clientVars, hist>>

NextSpawn == \E run \in SpawnRuns : SpawnAddPlayer(NameBo, run)

SpecSpawn == InitSpawn /\ [][NextSpawn]_vars

\* squared distance in px^2 between two positions
DistanceSquared(a, b) ==
  ((a.x - b.x) \div PosUnits) * ((a.x - b.x) \div PosUnits)
    + ((a.y - b.y) \div PosUnits) * ((a.y - b.y) \div PosUnits)
\* position is at least (strict: more than) minDistance + radius from every
\* asteroid centre and minDistance from every living player
SpawnApart(world, position, strict) ==
  LET Far(d2, limit) == IF strict THEN d2 > limit * limit ELSE d2 >= limit * limit
  IN /\ \A i \in DOMAIN world.asteroids :
           Far(DistanceSquared(position, world.asteroids[i].transform.position),
               minDistance + world.asteroids[i].radius)
     /\ \A i \in DOMAIN world.players :
           world.players[i].isAlive =>
              Far(DistanceSquared(position, world.players[i].transform.position),
                  minDistance)
SpawnOutcome(strict) ==
  lastOp.op = "findSafeSpawnPosition" =>
    \/ /\ \E k \in 1..maxAttempts : SpawnDraw(lastOp.run, k) = lastOp.result
       /\ SpawnApart(lastOp.before, lastOp.result, strict)
    \/ /\ lastOp.result = WorldCentre
       /\ \A k \in 1..maxAttempts :
             ~SpawnApart(lastOp.before, SpawnDraw(lastOp.run, k), strict)

\* C30 (amended): findSafeSpawnPosition returns one of the positions of its
\* first maxAttempts attempts, at least minDistance + radius from every
\* asteroid centre and at least minDistance from every living player, or,
\* when none of the maxAttempts positions is so, the centre of the world.
C30_SafeSpawn == SpawnOutcome(FALSE)
\* C30 as stated: the distances exceed the thresholds
C30_Original == SpawnOutcome(TRUE)
\* with a living player and an asteroid in the world, the last attempt but
\* one fails and the last one finds a position away from the centre
C30_Witness ==
  /\ lastOp.op = "findSafeSpawnPosition"
  /\ lastOp.run.n = maxAttempts - 1
  /\ lastOp.before.asteroids # <<>>
  /\ \E i \in DOMAIN lastOp.before.players : lastOp.before.players[i].isAlive
  /\ ~SpawnApart(lastOp.before, lastOp.run.u, FALSE)
  /\ lastOp.result = lastOp.run.s
  /\ lastOp.result # WorldCentre

\* ------------------------------------------------------------------------
\* Room membership and the registry
\* ------------------------------------------------------------------------
\* the registered rooms whose client map holds c, and those whose Game World
\* holds a player with the id of c
RoomsHolding(c) == {r \in Registered(SV) : c \in SeqToSet(rooms[r].clients)}
WorldsHolding(c) == {r \in Registered(SV) : MapHas(rooms[r].gameWorld.players, c)}

\* C36: at most one room's client map holds a client and at most one Game
\* World holds a player with its id, and that room is the one recorded in
\* the client's roomId.
C36_OneRoom ==
  \A c \in DOMAIN conn :
     /\ Cardinality(RoomsHolding(c)) <= 1
     /\ Cardinality(WorldsHolding(c)) <= 1
     /\ RoomsHolding(c) \cup WorldsHolding(c) \subseteq {conn[c].roomId}

\* C37: a join that is rejected leaves the registry as it was: the same
\* rooms are registered and the room codes map as before; and every
\* registered room holds at least one client.
RegisteredRooms(rr) == {r \in DOMAIN rr : rr[r] # Null /\ rr[r].registered}
C37_RejectedJoin ==
  [][/\ JoinFailed =>
          /\ RegisteredRooms(rooms') = RegisteredRooms(rooms)
          /\ roomCodes' = roomCodes
     /\ \A r \in RegisteredRooms(rooms') : rooms'[r].clients # <<>>]_vars

\* ------------------------------------------------------------------------
\* The target of a scheduled respawn
\* ------------------------------------------------------------------------
\* C40: a respawn callback acts only on the player whose death scheduled it.
\* When that player has left and a player with the same id is in the world,
\* the callback leaves that player's position, velocity, health and
\* invulnerability as they were; and it never changes a player that is alive.
C40_RespawnTarget ==
  lastOp.op = "respawn" =>
    LET id == lastOp.timer.playerId
    IN (/\ MapHas(lastOp.before.players, id)
        /\ \/ <<id, lastOp.timer.fireAt>> \in hist.stale
           \/ MapGet(lastOp.before.players, id).isAlive) =>
          /\ MapHas(rooms[lastOp.room].gameWorld.players, id)
          /\ LET old == MapGet(lastOp.before.players, id)
                 new == MapGet(rooms[lastOp.room].gameWorld.players, id)
             IN /\ new.transform = old.transform
                /\ new.velocity = old.velocity
                /\ new.health = old.health
                /\ new.invulnerableUntil = old.invulnerableUntil
                /\ new.isAlive = old.isAlive

\* ------------------------------------------------------------------------
\* Bullet expiry
\* ------------------------------------------------------------------------
\* the bullets an update found in the world whose lifetime ends in it
ExpiredIds ==
  {b.id : b \in {x \in SeqToSet(lastOp.before.bullets) : x.lifetime - lastOp.tickMs <= 0}}

\* C35: after an update no bullet with lifetime <= 0 is in the world, and a
\* bullet whose lifetime ended in the update is in none of its collision
\* events: every asteroid the update removed and every point it awarded is
\* due to a bullet that is still alive.
C35_BulletExpiry ==
  lastOp.op = "worldUpdate" =>
    /\ \A i \in DOMAIN World.bullets :
          World.bullets[i].lifetime > 0 /\ World.bullets[i].id \notin ExpiredIds
    /\ \A e \in SeqToSet(lastOp.events.bulletAsteroidCollisions)
                  \cup SeqToSet(lastOp.events.playerBulletCollisions) :
          e.bulletId \notin ExpiredIds
    /\ \A i \in DOMAIN lastOp.before.asteroids :
          ~MapHas(World.asteroids, lastOp.before.asteroids[i].id) =>
             \E e \in SeqToSet(lastOp.events.bulletAsteroidCollisions) :
                e.asteroidId = lastOp.before.asteroids[i].id /\ e.bulletId \notin ExpiredIds
    /\ \A c \in Stayed :
          After(c).score > Before(c).score =>
             \E e \in SeqToSet(lastOp.events.bulletAsteroidCollisions) :
                /\ e.bulletId \notin ExpiredIds
                /\ MapGet(lastOp.before.bullets, e.bulletId).playerId = c
\* in one update a bullet reached the end of its life and left the world
\* while a younger bullet struck an asteroid
C35_Witness ==
  /\ lastOp.op = "worldUpdate"
  /\ ExpiredIds # {}
  /\ \E b \in SeqToSet(lastOp.before.bullets) : b.lifetime = lastOp.tickMs
  /\ lastOp.events.bulletAsteroidCollisions # <<>>
  /\ Len(World.asteroids) < Len(lastOp.before.asteroids)

\* ------------------------------------------------------------------------
\* Points for a destroyed asteroid
\* ------------------------------------------------------------------------
\* what resolveCollisions made of the events of the last update
LastResolution ==
  LET moved == GameWorld_updateBullets(lastOp.before, lastOp.tickMs * UnitsPerMs)
  IN resolveCollisions(lastOp.events, moved.players, moved.asteroids, moved.bullets, now)
\* the points the players of the world gained in the last update
ScoreGained(c) == IF c \in Stayed THEN After(c).score - Before(c).score ELSE 0
RECURSIVE SumSeq(_)
SumSeq(q) == IF q = <<>> THEN 0 ELSE Head(q) + SumSeq(Tail(q))

\* C38: in an update every destroyed asteroid awards its points once: there
\* are as many score updates as asteroids struck and as bullets that struck
\* one, and the players together gain the point value of each asteroid
\* struck, once.
C38_ScoreOnce ==
  lastOp.op = "worldUpdate" =>
    LET shot == SeqToSet(lastOp.events.bulletAsteroidCollisions)
        struck == {e.asteroidId : e \in shot}
    IN /\ Len(LastResolution.scoreUpdates) = Cardinality(struck)
       /\ Len(LastResolution.scoreUpdates) = Cardinality({e.bulletId : e \in shot})
       /\ (\A e \in shot : MapGet(lastOp.before.bullets, e.bulletId).playerId \in Stayed) =>
             SumSeq([c \in Conns |-> ScoreGained(c)])
               = SumSeq([i \in DOMAIN lastOp.before.asteroids |->
                           IF lastOp.before.asteroids[i].id \in struck
                           THEN getAsteroidScore(lastOp.before.asteroids[i])
                           ELSE 0])

\* ------------------------------------------------------------------------
\* Input of a dead player
\* ------------------------------------------------------------------------
\* the records a tick applied to the Game World
AppliedInTick == {e \in SeqToSet(lastOp.trace) : e.ev = "input"}

\* C39: a record buffered while the player was not alive is never applied
\* to the Game World, neither while the player is dead nor in a tick after
\* its respawn.
C39_DeadInput ==
  lastOp.op = "tick" => \A e \in AppliedInTick : e.uid \notin hist.whileDead

\* ------------------------------------------------------------------------
\* wrapPosition applied to positions in and around worlds of several sizes
\* ------------------------------------------------------------------------
MaxWraps == 2
WideWorld == 40000 * PosUnits
WrapDims == {WORLD_WIDTH, WideWorld}
WrapOffsets == {-1, 0, 1}
WrapCoordinates(w) == {k * w + d : k \in {-1, 0, 1, 2}, d \in WrapOffsets}

InitWrap ==
  /\ now = 0
  /\ conn = [c \in Conns |-> NewConnection]
  /\ rooms = [r \in RoomIds |-> Null]
  /\ roomCodes = {}
  /\ timers = <<>>
  /\ s2c = [c \in Conns |-> <<>>]
  /\ game = [playerId |-> NoId, roomId |-> NoRoom, isRunning |-> FALSE]
  /\ network = [socket |-> "none", inputSequence |-> 0]
  /\ prediction = NewPrediction
  /\ \E w \in WrapDims, h \in WrapDims :
       \E x \in WrapCoordinates(w), y \in WrapCoordinates(h) :
          lastOp = [op |-> "position", wraps |-> 0, worldWidth |-> w, worldHeight |-> h,
                    before |-> Null, position |-> [x |-> x, y |-> y]]
  /\ hist = NewHist
  /\ steps = 0

\* wrapPosition is applied to the last position
Wrap ==
  /\ lastOp.wraps < MaxWraps
  /\ lastOp' = [lastOp EXCEPT
                  !.op = "wrapPosition",
                  !.wraps = @ + 1,
                  !.before = lastOp.position,
                  !.position = wrapPosition(lastOp.position, lastOp.worldWidth,
                                            lastOp.worldHeight)]
  /\ UNCHANGED <<now, serverVars, clientVars, hist, steps>>

NextWrap == Wrap

SpecWrap == InitWrap /\ [][NextWrap]_vars

InsideWorld(position, w, h) ==
  /\ 0 <= position.x /\ position.x < w
  /\ 0 <= position.y /\ position.y < h

\* C33: wrapPosition returns a position with x in [0, w) and y in [0, h), and
\* applied to a position it returned it returns that position unchanged.
C33_WrapInvariant ==
  lastOp.op = "wrapPosition" =>
    /\ InsideWorld(lastOp.position, lastOp.worldWidth, lastOp.worldHeight)
    /\ wrapPosition(lastOp.position, lastOp.worldWidth, lastOp.worldHeight) = lastOp.position

\* ------------------------------------------------------------------------
\* circleCircleCollision applied to pairs of circles
\* ------------------------------------------------------------------------
\* the test without "distance > 0"
circleCircleCollision_concentric(pos1, radius1, pos2, radius2) ==
  LET delta == Vec2_subtract(pos2, pos1)
      distance == Vec2_length(delta)
      minimum == radius1 + radius2
  IN IF distance < minimum
     THEN [collided |-> TRUE, depth |-> minimum - distance, normal |-> Vec2_normalize(delta)]
     ELSE [collided |-> FALSE]

circleCircleCollision(pos1, radius1, pos2, radius2) ==
  LET delta == Vec2_subtract(pos2, pos1)
      distance == Vec2_length(delta)
      minimum == radius1 + radius2
  IN IF distance < minimum /\ distance > 0
     THEN [collided |-> TRUE, depth |-> minimum - distance, normal |-> Vec2_normalize(delta)]
     ELSE [collided |-> FALSE]

\* centres and radii in position units: the same centre, centres one unit
\* apart, circles that overlap by one unit, that touch, and that are apart
CircleCentres == {[x |-> 0, y |-> 0], [x |-> 1000, y |-> 2000]}
CircleOffsets ==
  {[x |-> 0, y |-> 0], [x |-> 1, y |-> 0], [x |-> 0, y |-> -1],
   [x |-> 3000, y |-> 4000], [x |-> -3000, y |-> -4000], [x |-> 0, y |-> 3999],
   [x |-> 4999, y |-> 0], [x |-> 12000, y |-> 5000], [x |-> -12000, y |-> 5001]}
CircleRadii == {2000, 3000, 10000}

InitCircles ==
  /\ now = 0
  /\ conn = [c \in Conns |-> NewConnection]
  /\ rooms = [r \in RoomIds |-> Null]
  /\ roomCodes = {}
  /\ timers = <<>>
  /\ s2c = [c \in Conns |-> <<>>]
  /\ game = [playerId |-> NoId, roomId |-> NoRoom, isRunning |-> FALSE]
  /\ network = [socket |-> "none", inputSequence |-> 0]
  /\ prediction = NewPrediction
  /\ \E c \in CircleCentres, d \in CircleOffsets, r1 \in CircleRadii, r2 \in CircleRadii :
        lastOp = [op |-> "circles", pos1 |-> c, radius1 |-> r1,
                  pos2 |-> Vec2_add(c, d), radius2 |-> r2, result |-> Null]
  /\ hist = NewHist
  /\ steps = 0

\* circleCircleCollision is called with the two circles, in either order
Collide(swap) ==
  /\ LET pos1 == IF swap THEN lastOp.pos2 ELSE lastOp.pos1
         radius1 == IF swap THEN lastOp.radius2 ELSE lastOp.radius1
         pos2 == IF swap THEN lastOp.pos1 ELSE lastOp.pos2
         radius2 == IF swap THEN lastOp.radius1 ELSE lastOp.radius2
     IN lastOp' = [op |-> "circleCircleCollision", pos1 |-> pos1, radius1 |-> radius1,
                   pos2 |-> pos2, radius2 |-> radius2,
                   result |-> circleCircleCollision(pos1, radius1, pos2, radius2)]
  /\ UNCHANGED <<now, serverVars, clientVars, hist, steps>>

NextCircles == \E swap \in BOOLEAN : Collide(swap)

SpecCircles == InitCircles /\ [][NextCircles]_vars

\* depth of a result, Null when the circles did not collide
CollisionDepth(result) == IF result.collided THEN result.depth ELSE Null

\* C34: circleCircleCollision reports collided exactly when the distance of
\* the centres is positive and below r1 + r2, with depth r1 + r2 - distance;
\* circles with the same centre do not collide; and the call with the two
\* circles swapped gives the same flag and the same depth.
C34_CircleCollision ==
  lastOp.op = "circleCircleCollision" =>
    LET squared == Vec2_lengthSquared(Vec2_subtract(lastOp.pos1, lastOp.pos2))
        reach == lastOp.radius1 + lastOp.radius2
        swapped == circleCircleCollision(lastOp.pos2, lastOp.radius2,
                                         lastOp.pos1, lastOp.radius1)
    IN /\ lastOp.result.collided <=> (0 < squared /\ squared < reach * reach)
       /\ lastOp.result.collided => lastOp.result.depth = reach - Sqrt(squared)
       /\ lastOp.pos1 = lastOp.pos2 => ~lastOp.result.collided
       /\ swapped.collided = lastOp.result.collided
       /\ CollisionDepth(swapped) = CollisionDepth(lastOp.result)

\* circles overlapping by one unit have collided, and so have circles whose
\* centres are one unit apart
C34_Witness ==
  /\ lastOp.op = "circleCircleCollision"
  /\ lastOp.result.collided
  /\ lastOp.result.depth = 1

\* ------------------------------------------------------------------------
\* SpatialHash: cells is a Map from cell key to a Set of ids, objects a Map
\* from id to the position, radius and cell keys of its last insert.  A Set
\* is the sequence of its members in insertion order; a cell key "x,y" is
\* the pair <<x, y>>.  Coordinates are whole pixels.
\* ------------------------------------------------------------------------
SPATIAL_HASH_CELL_SIZE == 100

NewSpatialHash(cellSize) == [cellSize |-> cellSize, cells |-> <<>>, objects |-> <<>>]

SetAdd(members, id) == IF id \in SeqToSet(members) THEN members ELSE Append(members, id)
SetDelete(members, id) == SelectSeq(members, LAMBDA m : m # id)

\* the cells of the centre alone
getCellsForObject_centre(hash, position, radius) ==
  <<<<position.x \div hash.cellSize, position.y \div hash.cellSize>>>>

\* Math.floor(a / cellSize) is \div, which rounds down
getCellsForObject(hash, position, radius) ==
  LET minX == (position.x - radius) \div hash.cellSize
      maxX == (position.x + radius) \div hash.cellSize
      minY == (position.y - radius) \div hash.cellSize
      maxY == (position.y + radius) \div hash.cellSize
  IN Flatten([i \in 1..(maxX - minX + 1) |->
               [j \in 1..(maxY - minY + 1) |-> <<minX + i - 1, minY + j - 1>>]])

RECURSIVE CellsDelete(_, _, _)
CellsDelete(cells, keys, id) ==
  IF keys = <<>> THEN cells
  ELSE LET key == Head(keys)
           next == IF MapHas(cells, key)
                   THEN LET cell == SetDelete(MapGet(cells, key).members, id)
                        IN IF Len(cell) = 0 THEN MapDelete(cells, key)
                           ELSE MapSet(cells, key, [id |-> key, members |-> cell])
                   ELSE cells
       IN CellsDelete(next, Tail(keys), id)

SpatialHash_remove(hash, id) ==
  IF ~MapHas(hash.objects, id) THEN hash
  ELSE [hash EXCEPT
          !.cells = CellsDelete(@, MapGet(hash.objects, id).cellKeys, id),
          !.objects = MapDelete(@, id)]

RECURSIVE CellsAdd(_, _, _)
CellsAdd(cells, keys, id) ==
  IF keys = <<>> THEN cells
  ELSE LET key == Head(keys)
           cell == IF MapHas(cells, key) THEN MapGet(cells, key).members ELSE <<>>
       IN CellsAdd(MapSet(cells, key, [id |-> key, members |-> SetAdd(cell, id)]),
                   Tail(keys), id)

SpatialHash_insert(hash, id, position, radius) ==
  LET removed == SpatialHash_remove(hash, id)
      cellKeys == getCellsForObject(removed, position, radius)
  IN [removed EXCEPT
        !.objects = MapSet(@, id, [id |-> id, position |-> position, radius |-> radius,
                                   cellKeys |-> cellKeys]),
        !.cells = CellsAdd(@, cellKeys, id)]

RECURSIVE Candidates(_, _, _)
Candidates(cells, keys, candidates) ==
  IF keys = <<>> THEN candidates
  ELSE LET key == Head(keys)
           cell == IF MapHas(cells, key) THEN MapGet(cells, key).members ELSE <<>>
           RECURSIVE AddAll(_, _)
           AddAll(set, ids) == IF ids = <<>> THEN set
                               ELSE AddAll(SetAdd(set, Head(ids)), Tail(ids))
       IN Candidates(cells, Tail(keys), AddAll(candidates, cell))

SpatialHash_query(hash, position, radius) ==
  Candidates(hash.cells, getCellsForObject(hash, position, radius), <<>>)

SpatialHash_clear(hash) == [hash EXCEPT !.cells = <<>>, !.objects = <<>>]

\* Entities of CollisionSystem.update around the corner of four cells
HashIds == {"player_1", "asteroid_1"}
HashPoints == {[x |-> 50, y |-> 50], [x |-> 95, y |-> 50], [x |-> 100, y |-> 100],
               [x |-> -5, y |-> 150]}
HashRadii == {2, 8, 40}

\* lastOp.hash is the CollisionSystem's spatialHash; lastOp.live records,
\* for each id, the position and radius of its insert while it has not been
\* removed or cleared since
InitHash ==
  /\ now = 0
  /\ conn = [c \in Conns |-> NewConnection]
  /\ rooms = [r \in RoomIds |-> Null]
  /\ roomCodes = {}
  /\ timers = <<>>
  /\ s2c = [c \in Conns |-> <<>>]
  /\ game = [playerId |-> NoId, roomId |-> NoRoom, isRunning |-> FALSE]
  /\ network = [socket |-> "none", inputSequence |-> 0]
  /\ prediction = NewPrediction
  /\ lastOp = [op |-> "constructor", hash |-> NewSpatialHash(SPATIAL_HASH_CELL_SIZE),
               live |-> [id \in HashIds |-> Null], id |-> NoId,
               position |-> Null, radius |-> 0, result |-> <<>>]
  /\ hist = NewHist
  /\ steps = 0

HashInsert(id, position, radius) ==
  /\ lastOp' = [lastOp EXCEPT
                  !.op = "insert", !.id = id, !.position = position, !.radius = radius,
                  !.result = <<>>,
                  !.hash = SpatialHash_insert(@, id, position, radius),
                  !.live[id] = [position |-> position, radius |-> radius]]
  /\ UNCHANGED <<now, serverVars, clientVars, hist, steps>>

HashRemove(id) ==
  /\ lastOp' = [lastOp EXCEPT
                  !.op = "remove", !.id = id, !.position = Null, !.radius = 0,
                  !.result = <<>>,
                  !.hash = SpatialHash_remove(@, id),
                  !.live[id] = Null]
  /\ UNCHANGED <<now, serverVars, clientVars, hist, steps>>

HashClear ==
  /\ lastOp' = [lastOp EXCEPT
                  !.op = "clear", !.id = NoId, !.position = Null, !.radius = 0,
                  !.result = <<>>,
                  !.hash = SpatialHash_clear(@),
                  !.live = [id \in HashIds |-> Null]]
  /\ UNCHANGED <<now, serverVars, clientVars, hist, steps>>

HashQuery(position, radius) ==
  /\ lastOp' = [lastOp EXCEPT
                  !.op = "query", !.id = NoId, !.position = position, !.radius = radius,
                  !.result = SpatialHash_query(lastOp.hash, position, radius)]
  /\ UNCHANGED <<now, serverVars, clientVars, hist, steps>>

NextHash ==
  \/ \E id \in HashIds, position \in HashPoints, radius \in HashRadii :
        HashInsert(id, position, radius)
  \/ \E id \in HashIds : HashRemove(id)
  \/ HashClear
  \/ \E position \in HashPoints, radius \in HashRadii : HashQuery(position, radius)

SpecHash == InitHash /\ [][NextHash]_vars

\* the grid cell k covers [k * cellSize, (k + 1) * cellSize) on an axis
HashCellRange == -2..2
CellMeets(k, centre, radius) ==
  /\ k * SPATIAL_HASH_CELL_SIZE <= centre + radius
  /\ centre - radius < (k + 1) * SPATIAL_HASH_CELL_SIZE
SquaresShareCell(p, r, q, s) ==
  \E kx \in HashCellRange, ky \in HashCellRange :
     /\ CellMeets(kx, p.x, r) /\ CellMeets(ky, p.y, r)
     /\ CellMeets(kx, q.x, s) /\ CellMeets(ky, q.y, s)
CirclesIntersect(p, r, q, s) ==
  Vec2_lengthSquared(Vec2_subtract(p, q)) <= (r + s) * (r + s)
Occurrences(q, id) == Cardinality({i \in DOMAIN q : q[i] = id})

\* C32: a query returns, exactly once, every inserted id whose bounding
\* square shares a grid cell with the query's bounding square, hence every
\* id whose circle intersects the query's circle; and it returns no id that
\* was removed or cleared after its last insert, or never inserted.
C32_BroadPhase ==
  lastOp.op = "query" =>
    \A id \in HashIds :
       LET entry == lastOp.live[id]
       IN IF entry = Null
          THEN Occurrences(lastOp.result, id) = 0
          ELSE /\ SquaresShareCell(entry.position, entry.radius,
                                   lastOp.position, lastOp.radius)
                    => Occurrences(lastOp.result, id) = 1
               /\ CirclesIntersect(entry.position, entry.radius,
                                   lastOp.position, lastOp.radius)
                    => Occurrences(lastOp.result, id) = 1
               /\ Occurrences(lastOp.result, id) <= 1

\* a query around the corner of four cells returns an id that lies in all
\* four, while the other id has been removed
C32_Witness ==
  /\ lastOp.op = "query"
  /\ lastOp.position = [x |-> 100, y |-> 100]
  /\ lastOp.result = <<"asteroid_1">>
  /\ lastOp.live["asteroid_1"] = [position |-> [x |-> 95, y |-> 50], radius |-> 40]
  /\ lastOp.live["player_1"] = Null
  /\ \E i \in DOMAIN lastOp.hash.cells : Len(lastOp.hash.cells[i].members) = 1

\* the snapshot message of a Game World
SnapshotMessage(world) ==
  Msg("snapshot", [tick |-> world.tick, timestamp |-> world.lastUpdate,
                   players |-> world.players, bullets |-> world.bullets])

\* C31: the callbacks of a room run one at a time, so a snapshot broadcast
\* sends the Game World exactly as the previous callback left it, changes
\* nothing in it, and appends that one message to the channel of every
\* client of the room whose socket is open (SV.s2c is what the channels hold
\* when the callback starts).
C31_SnapshotConsistent ==
  [][hist'.snapshots = hist.snapshots + 1 =>
       LET r == lastOp'.room
       IN /\ rooms' = rooms
          /\ \A c \in Conns :
                c \in SeqToSet(rooms[r].clients) /\ conn[c].status = "open"
                  => s2c'[c] = Append(SV.s2c[c], SnapshotMessage(rooms[r].gameWorld))]_vars

\* two clients of a room have both received the snapshot of a world that
\* has been ticked
C31_Witness ==
  /\ lastOp.op = "snapshot"
  /\ Len(rooms[lastOp.room].clients) = 2
  /\ rooms[lastOp.room].gameWorld.tick >= 1
  /\ \A c \in SeqToSet(rooms[lastOp.room].clients) :
        /\ s2c[c] # <<>>
        /\ s2c[c][Len(s2c[c])] = SnapshotMessage(rooms[lastOp.room].gameWorld)
====
